---- MODULE Spec2Model ----
(***************************************************************************)
(* A model of the argument parser and command resolution of isobit/cli.    *)
(*                                                                         *)
(* A token is a sequence of one-character strings, so that the parser's    *)
(* byte-level tests (s[0] == '-', name[i] == '=') are modelled as written.  *)
(* An argument vector is a sequence of tokens.                             *)
(***************************************************************************)
EXTENDS Integers, Sequences, FiniteSets, TLC

VARIABLES
    sc,          \* the scenario: which command tree was built, and its inputs
    parses,      \* the number of ParseArgs calls made on the root of the tree
    cmds,        \* the built command tree: command id -> Command
    env,         \* the LookupEnv collaborator: key -> [found, val, fail]
    argv,        \* the argument vector handed to the root's ParseArgs
    cur,         \* the Command whose ParseArgs is running
    arguments,   \* the args parameter of the running ParseArgs
    args,        \* parser.args of the running level
    pc,          \* position inside ParseArgs
    slot,        \* command id -> field Name -> the bound config slot
    setCount,    \* command id -> field Name -> fieldValue.setCount
    sink,        \* command id -> the slice behind the args field
    subCmd,      \* the child resolved at this level ("" when none)
    err,         \* ParseResult.Err
    lookups,     \* the LookupEnv calls made so far: sequence of <<command id, field Name>>
    path,        \* the commands whose ParseArgs has been entered, in order
    beforeCalls, \* the Before calls made so far: sequence of command ids
    hooks,       \* what the configs' Before and Run methods return, per command
    helpWriter,  \* whether CLI.HelpWriter is non-nil
    runCalls,    \* the Run calls made so far: sequence of command ids
    runErr,      \* the error returned by ParseResult.Run
    helpWritten, \* the commands whose help was written to the HelpWriter
    cfg,         \* the config struct handed to Build: its fields as reflection shows them
    bpc,         \* position in the construction of a command
    btree,       \* the commands constructed: command id -> Command
    panicked,    \* whether AddCommand panicked
    tagIn,       \* the inner part of a struct tag handed to parseStructTagInner
    tagOut       \* the map parseStructTagInner returned

\* The variables of the construction of a command, and those of a parse.
bvars == <<cfg, bpc, btree, panicked, tagIn, tagOut>>
pvars == <<sc, parses, cmds, env, argv, cur, arguments, args, pc, slot, setCount, sink,
           subCmd, err, lookups, path, beforeCalls, hooks, helpWriter, runCalls,
           runErr, helpWritten>>

vars == <<pvars, bvars>>

(***************************************************************************)
(* Bounds                                                                  *)
(***************************************************************************)
MaxArgs == 3
\* The most calls of ParseArgs made on the root of one built tree.
MaxParses == 2

(***************************************************************************)
(* Small sequence helpers                                                  *)
(***************************************************************************)
Drop(s, n) == SubSeq(s, n + 1, Len(s))

IsSuffix(s, t) == Len(s) <= Len(t) /\ s = Drop(t, Len(t) - Len(s))

SeqsUpTo(S, n) == UNION {[1..k -> S] : k \in 0..n}

\* F applied to the value of e, which is computed once.
With(e, F(_)) == CHOOSE y \in {F(v) : v \in {e}} : TRUE

NoCmd == ""

EmptyMap == [k \in {} |-> NoCmd]

Put(m, k, v) == [x \in DOMAIN m \cup {k} |-> IF x = k THEN v ELSE m[x]]

(***************************************************************************)
(* Tokens                                                                   *)
(***************************************************************************)
Dash == <<"-">>
DashDash == <<"-", "-">>
Empty == <<>>
Long(name) == <<"-", "-">> \o name
Short(name) == <<"-">> \o name
WithValue(tok, v) == tok \o <<"=">> \o v

N_help == <<"h", "e", "l", "p">>
N_h == <<"h">>
\* The other names and values the scenarios use, as the characters they are
\* made of.
Tok ==
    [twelve |-> <<"1", "2">>,
     seven |-> <<"7">>,
     a |-> <<"a">>,
     alice |-> <<"a", "l", "i", "c", "e">>,
     b |-> <<"b">>,
     bar |-> <<"b", "a", "r">>,
     bool |-> <<"b", "o", "o", "l">>,
     c |-> <<"c">>,
     deep |-> <<"d", "e", "e", "p">>,
     def |-> <<"d", "e", "f">>,
     f |-> <<"f">>,
     false |-> <<"f", "a", "l", "s", "e">>,
     flag |-> <<"f", "l", "a", "g">>,
     foo |-> <<"f", "o", "o">>,
     n |-> <<"n">>,
     name |-> <<"n", "a", "m", "e">>,
     num |-> <<"n", "u", "m">>,
     nums |-> <<"n", "u", "m", "s">>,
     other |-> <<"o", "t", "h", "e", "r">>,
     ptr |-> <<"p", "t", "r">>,
     quux |-> <<"q", "u", "u", "x">>,
     s |-> <<"s">>,
     sub |-> <<"s", "u", "b">>,
     tags |-> <<"t", "a", "g", "s">>,
     true |-> <<"t", "r", "u", "e">>,
     v |-> <<"v">>,
     x |-> <<"x">>]

(***************************************************************************)
(* Value coercion: the Setters behind a bound field                        *)
(***************************************************************************)
DigitVal == [d \in {"1", "2", "3", "4", "5", "6", "7", "8", "9"} |->
               CASE d = "1" -> 1 [] d = "2" -> 2 [] d = "3" -> 3 [] d = "4" -> 4
                 [] d = "5" -> 5 [] d = "6" -> 6 [] d = "7" -> 7 [] d = "8" -> 8
                 [] d = "9" -> 9]

\* Does the token, read from position i, continue with the character set cs?
Accept(s, i, cs) == i <= Len(s) /\ s[i] \in cs

\* fmt.Sscanf(s, "%v", *bool): [ok, b]. Input left over after the literal is
\* not an error. An unrecognised first character scans as false.
ScanBool(s) ==
    IF Len(s) = 0 THEN [ok |-> FALSE, b |-> FALSE]
    ELSE CASE s[1] = "0" -> [ok |-> TRUE, b |-> FALSE]
           [] s[1] = "1" -> [ok |-> TRUE, b |-> TRUE]
           [] s[1] \in {"t", "T"} ->
                IF Accept(s, 2, {"r", "R"})
                   /\ (~Accept(s, 3, {"u", "U"}) \/ ~Accept(s, 4, {"e", "E"}))
                THEN [ok |-> FALSE, b |-> FALSE]
                ELSE [ok |-> TRUE, b |-> TRUE]
           [] s[1] \in {"f", "F"} ->
                IF Accept(s, 2, {"a", "A"})
                   /\ (~Accept(s, 3, {"l", "L"}) \/ ~Accept(s, 4, {"s", "S"})
                       \/ ~Accept(s, 5, {"e", "E"}))
                THEN [ok |-> FALSE, b |-> FALSE]
                ELSE [ok |-> TRUE, b |-> FALSE]
           [] OTHER -> [ok |-> TRUE, b |-> FALSE]

RECURSIVE ScanDigits(_, _, _)
\* The decimal digits of s from position i on, accumulated into acc.
ScanDigits(s, i, acc) ==
    IF i <= Len(s) /\ s[i] \in DOMAIN DigitVal
    THEN ScanDigits(s, i + 1, 10 * acc + DigitVal[s[i]])
    ELSE acc

\* fmt.Sscanf(s, "%v", *int): [ok, i], for tokens without the characters
\* "0" and "_" (no base prefix, no digit separators): an optional sign, then
\* at least one decimal digit; input left over after the digits is no error.
ScanInt(s) ==
    IF Len(s) = 0 THEN [ok |-> FALSE, i |-> 0]
    ELSE LET signed == s[1] \in {"+", "-"}
             from == IF signed THEN 2 ELSE 1
         IN IF ~Accept(s, from, DOMAIN DigitVal) THEN [ok |-> FALSE, i |-> 0]
            ELSE [ok |-> TRUE,
                  i |-> IF signed /\ s[1] = "-" THEN 0 - ScanDigits(s, from, 0)
                        ELSE ScanDigits(s, from, 0)]

\* The kinds of config fields: bool, int, string; pointers to them ("*int");
\* slices of them with the append tag ("[]string"), also of pointers ("[]*int").
IsPointerKind(kind) == kind \in {"*int", "*string", "*bool"}
IsAppendKind(kind) == kind \in {"[]int", "[]string", "[]*int", "[]*string", "[]bool"}
ElemsArePointers(kind) == kind \in {"[]*int", "[]*string"}

\* The type pointed to, or of the elements; the kind itself otherwise.
ElemKind(kind) ==
    CASE kind \in {"*int", "[]int", "[]*int"} -> "int"
      [] kind \in {"*string", "[]string", "[]*string"} -> "string"
      [] kind \in {"*bool", "[]bool"} -> "bool"
      [] OTHER -> kind

\* The zero value a config slot of the given kind starts with. A pointer
\* slot is [nil, ph, wrapped]: nil says the config's pointer is nil, ph is
\* the content of the cell the setter writes (the placeholder getFieldValue
\* allocates for a nil pointer, else the pointee), wrapped says the setter is
\* a pointerSetter. An append slot is [l, ph], l the target slice and ph the
\* element placeholder; with pointer elements l holds addresses into mem,
\* the cells allocated so far (address 0 is the placeholder itself).
ZeroValue(kind) ==
    CASE kind = "bool" -> [b |-> FALSE]
      [] kind = "int" -> [i |-> 0]
      [] kind = "*int" -> [nil |-> TRUE, ph |-> [i |-> 0], wrapped |-> TRUE]
      [] kind = "*string" -> [nil |-> TRUE, ph |-> [s |-> <<>>], wrapped |-> TRUE]
      [] kind = "*bool" -> [nil |-> TRUE, ph |-> [b |-> FALSE], wrapped |-> TRUE]
      [] kind = "[]bool" -> [l |-> <<>>, ph |-> [b |-> FALSE]]
      [] kind = "[]int" -> [l |-> <<>>, ph |-> [i |-> 0]]
      [] kind = "[]string" -> [l |-> <<>>, ph |-> [s |-> <<>>]]
      [] kind = "[]*int" -> [l |-> <<>>, mem |-> <<>>, ph |-> [i |-> 0]]
      [] kind = "[]*string" -> [l |-> <<>>, mem |-> <<>>, ph |-> [s |-> <<>>]]
      [] OTHER -> [s |-> <<>>]

\* Setter.Set for a field of the given kind: [ok, val]; val is the slot's
\* new content when ok.
SetterSet(kind, s) ==
    CASE kind = "bool" -> With(ScanBool(s), LAMBDA r : [ok |-> r.ok, val |-> [b |-> r.b]])
      [] kind = "int" -> With(ScanInt(s), LAMBDA r : [ok |-> r.ok, val |-> [i |-> r.i]])
      [] OTHER -> [ok |-> TRUE, val |-> [s |-> s]]

\* pointerSetter.Set with the target pointed at the placeholder before the
\* placeholder is set.
pointerSetterSet_TargetFirst(elem, old, s) ==
    With(SetterSet(elem, s), LAMBDA r :
        [ok |-> r.ok,
         val |-> IF r.ok THEN [old EXCEPT !.ph = r.val, !.nil = FALSE]
                 ELSE [old EXCEPT !.nil = FALSE]])

\* pointerSetter.Set on the slot content old: the placeholder is set, and only
\* then the target pointer is pointed at it.
pointerSetterSet(elem, old, s) ==
    With(SetterSet(elem, s), LAMBDA r :
        IF ~r.ok THEN [ok |-> FALSE, val |-> old]
        ELSE [ok |-> TRUE, val |-> [old EXCEPT !.ph = r.val, !.nil = FALSE]])

\* appendSliceSetter.Set appending the placeholder pointer itself.
appendSliceSetterSet_SharesPlaceholder(elem, elemsArePointers, old, s) ==
    With(SetterSet(elem, s), LAMBDA r :
        IF ~r.ok THEN [ok |-> FALSE, val |-> old]
        ELSE IF elemsArePointers
        THEN [ok |-> TRUE, val |-> [old EXCEPT !.ph = r.val, !.l = Append(@, 0)]]
        ELSE [ok |-> TRUE, val |-> [old EXCEPT !.ph = r.val, !.l = Append(@, r.val)]])

\* appendSliceSetter.Set on the slot content old: the placeholder is set,
\* then its value (copied behind a new pointer if the elements are pointers)
\* is appended to the target slice.
appendSliceSetterSet(elem, elemsArePointers, old, s) ==
    With(SetterSet(elem, s), LAMBDA r :
        IF ~r.ok THEN [ok |-> FALSE, val |-> old]
        ELSE IF elemsArePointers
        THEN [ok |-> TRUE,
              val |-> [old EXCEPT !.ph = r.val,
                                  !.mem = Append(@, r.val),
                                  !.l = Append(@, Len(old.mem) + 1)]]
        ELSE [ok |-> TRUE, val |-> [old EXCEPT !.ph = r.val, !.l = Append(@, r.val)]])

\* The Setter getFieldValue gives a field of the given kind, applied to the
\* slot content old: [ok, val], val the slot content after the call (a
\* scan that fails leaves its target as it was).
fieldSetter(kind, old, s) ==
    IF IsAppendKind(kind)
    THEN appendSliceSetterSet(ElemKind(kind), ElemsArePointers(kind), old, s)
    ELSE IF IsPointerKind(kind)
    THEN IF old.wrapped THEN pointerSetterSet(ElemKind(kind), old, s)
         ELSE With(SetterSet(ElemKind(kind), s), LAMBDA r :
              [ok |-> r.ok, val |-> IF r.ok THEN [old EXCEPT !.ph = r.val] ELSE old])
    ELSE With(SetterSet(kind, s), LAMBDA r :
         [ok |-> r.ok, val |-> IF r.ok THEN r.val ELSE old])

(***************************************************************************)
(* Field binder: from a config record to the ordered bound fields          *)
(***************************************************************************)
NoName == <<>>

\* A bound field. The *fieldValue behind it (slot and setCount) is identified
\* by Name, which is unique within a built Command.
Field(name, short, kind, required, envKey) ==
    [Name |-> name, ShortName |-> short, kind |-> kind, Required |-> required,
     EnvVarName |-> envKey, injected |-> FALSE]

\* The boolean test looking through pointers and slices.
isBoolFlag_ElemKind(f) == ElemKind(f.kind) = "bool"

\* fieldValue.isBoolFlag: the kind of the field itself is bool.
isBoolFlag(f) == f.kind = "bool"

\* The error of Build: its kind, the name it is about, and for the
\* unknown-tags error the keys it lists.
BuildErr(kind, name, keys) == [kind |-> kind, name |-> name, keys |-> keys]

NoBuildErr == BuildErr("none", NoName, {})

\* The entries of a config record, in declaration order. tag is "field",
\* "embed" (an anonymous or embed-tagged sub-record, whose entries are sub),
\* "args" (the positional sink), "exclude" (tagged "-"), "unexported", or
\* "bad" (a field getFields fails on, with the error err).
FieldEntry(f) == [tag |-> "field", f |-> f, sub |-> <<>>]
EmbedEntry(sub) == [tag |-> "embed", f |-> Field(NoName, NoName, "string", FALSE, ""), sub |-> sub]
ArgsEntry(name) == [tag |-> "args", f |-> Field(name, NoName, "args", FALSE, ""), sub |-> <<>>]
SkipEntry(tag, f) == [tag |-> tag, f |-> f, sub |-> <<>>]
BadEntry(f, e) == [tag |-> "bad", f |-> f, sub |-> <<>>, err |-> e]

(***************************************************************************)
(* Struct tags (structtag.go, parseFieldTags)                              *)
(***************************************************************************)
\* The state of the scan of parseStructTagInner before any character.
TagScanStart == [ret |-> EmptyMap, key |-> <<>>, val |-> <<>>, inKey |-> TRUE, inQuote |-> FALSE]

\* The loop body ending a quoted value at a comma.
tagScanChar_CommaEndsQuote(st, c) ==
    IF st.inKey
    THEN CASE c = "," -> [st EXCEPT !.ret = Put(@, st.key, <<>>), !.key = <<>>]
           [] c = "=" -> [st EXCEPT !.inKey = FALSE]
           [] c = " " -> st
           [] OTHER -> [st EXCEPT !.key = Append(@, c)]
    ELSE CASE c = "," -> [st EXCEPT !.ret = Put(@, st.key, st.val), !.key = <<>>,
                                    !.val = <<>>, !.inKey = TRUE, !.inQuote = FALSE]
           [] c = "'" -> [st EXCEPT !.inQuote = ~@]
           [] OTHER -> [st EXCEPT !.val = Append(@, c)]

\* One iteration of the loop of parseStructTagInner, on the character c.
tagScanChar(st, c) ==
    IF st.inKey
    THEN CASE c = "," -> [st EXCEPT !.ret = Put(@, st.key, <<>>), !.key = <<>>]
           [] c = "=" -> [st EXCEPT !.inKey = FALSE]
           [] c = " " -> st
           [] OTHER -> [st EXCEPT !.key = Append(@, c)]
    ELSE IF st.inQuote
    THEN IF c = "'" THEN [st EXCEPT !.inQuote = FALSE]
         ELSE [st EXCEPT !.val = Append(@, c)]
    ELSE CASE c = "," -> [st EXCEPT !.ret = Put(@, st.key, st.val), !.key = <<>>,
                                    !.val = <<>>, !.inKey = TRUE]
           [] c = "'" -> [st EXCEPT !.inQuote = TRUE]
           [] OTHER -> [st EXCEPT !.val = Append(@, c)]

RECURSIVE tagScan(_, _)
\* The loop of parseStructTagInner over the characters of s.
tagScan(st, s) ==
    IF s = <<>> THEN st
    ELSE With(tagScanChar(st, Head(s)), LAMBDA st1 : tagScan(st1, Tail(s)))

\* parseStructTagInner: the key -> value map of the inner part of a tag.
parseStructTagInner(tagInner) ==
    With(tagScan(TagScanStart, tagInner), LAMBDA st :
        IF Len(st.key) > 0 THEN Put(st.ret, st.key, st.val) ELSE st.ret)

\* The keys of the cli tag that parseFieldTags knows.
TagKey ==
    [exclude |-> <<"-">>,
     required |-> <<"r", "e", "q", "u", "i", "r", "e", "d">>,
     name |-> <<"n", "a", "m", "e">>,
     short |-> <<"s", "h", "o", "r", "t">>,
     placeholder |-> <<"p", "l", "a", "c", "e", "h", "o", "l", "d", "e", "r">>,
     env |-> <<"e", "n", "v">>,
     help |-> <<"h", "e", "l", "p">>,
     default |-> <<"d", "e", "f", "a", "u", "l", "t">>,
     nodefault |-> <<"n", "o", "d", "e", "f", "a", "u", "l", "t">>,
     append |-> <<"a", "p", "p", "e", "n", "d">>,
     embed |-> <<"e", "m", "b", "e", "d">>,
     hidden |-> <<"h", "i", "d", "d", "e", "n">>,
     args |-> <<"a", "r", "g", "s">>]

\* The keys parseFieldTags pops from the map.
RecognizedKeys == {TagKey[k] : k \in DOMAIN TagKey}

\* The value of a key of the map, the empty string when it is absent.
TagValue(m, k) == IF k \in DOMAIN m THEN m[k] ELSE <<>>

\* parseFieldTags failing at the first key it does not know.
parseFieldTags_FirstUnknown(m) ==
    [exclude |-> TagKey.exclude \in DOMAIN m,
     required |-> TagKey.required \in DOMAIN m,
     name |-> TagValue(m, TagKey.name),
     short |-> TagValue(m, TagKey.short),
     env |-> TagValue(m, TagKey.env),
     append |-> TagKey.append \in DOMAIN m,
     embed |-> TagKey.embed \in DOMAIN m,
     args |-> TagKey.args \in DOMAIN m,
     err |-> IF TagKey.short \in DOMAIN m /\ Len(m[TagKey.short]) # 1
             THEN BuildErr("short_name_length", NoName, {})
             ELSE IF DOMAIN m \ RecognizedKeys # {}
             THEN BuildErr("unknown_tags", NoName,
                           {CHOOSE k \in DOMAIN m \ RecognizedKeys : TRUE})
             ELSE NoBuildErr]

\* parseFieldTags on the map m of a field's tag: the fieldTags the model
\* uses, and the error. A short name that is not one character is reported
\* when the short key is popped; the keys left after all pops are reported
\* together (in the order the map yields them, which is not modelled: keys
\* is their set).
parseFieldTags(m) ==
    [exclude |-> TagKey.exclude \in DOMAIN m,
     required |-> TagKey.required \in DOMAIN m,
     name |-> TagValue(m, TagKey.name),
     short |-> TagValue(m, TagKey.short),
     env |-> TagValue(m, TagKey.env),
     append |-> TagKey.append \in DOMAIN m,
     embed |-> TagKey.embed \in DOMAIN m,
     args |-> TagKey.args \in DOMAIN m,
     err |-> IF TagKey.short \in DOMAIN m /\ Len(m[TagKey.short]) # 1
             THEN BuildErr("short_name_length", NoName, {})
             ELSE IF DOMAIN m \ RecognizedKeys # {}
             THEN BuildErr("unknown_tags", NoName, DOMAIN m \ RecognizedKeys)
             ELSE NoBuildErr]

\* An upper-case letter in lower case.
LowerOf(c) ==
    CASE c = "A" -> "a" [] c = "B" -> "b" [] c = "C" -> "c" [] c = "D" -> "d" [] c = "E" -> "e"
          [] c = "F" -> "f" [] c = "G" -> "g" [] c = "H" -> "h" [] c = "I" -> "i" [] c = "J" -> "j"
          [] c = "K" -> "k" [] c = "L" -> "l" [] c = "M" -> "m" [] c = "N" -> "n" [] c = "O" -> "o"
          [] c = "P" -> "p" [] c = "Q" -> "q" [] c = "R" -> "r" [] c = "S" -> "s" [] c = "T" -> "t"
          [] c = "U" -> "u" [] c = "V" -> "v" [] c = "W" -> "w" [] c = "X" -> "x" [] c = "Y" -> "y"
          [] c = "Z" -> "z"
          [] OTHER -> c

IsUpper(c) == LowerOf(c) # c

RECURSIVE ToKebabCase(_)
\* xstrings.ToKebabCase on an identifier of letters: lower case, with a
\* hyphen before every upper-case letter that follows a lower-case one.
ToKebabCase(s) ==
    IF Len(s) <= 1 THEN [i \in 1..Len(s) |-> LowerOf(s[i])]
    ELSE With(ToKebabCase(SubSeq(s, 1, Len(s) - 1)), LAMBDA front :
         IF IsUpper(s[Len(s)]) /\ ~IsUpper(s[Len(s) - 1])
         THEN front \o <<"-", LowerOf(s[Len(s)])>>
         ELSE Append(front, LowerOf(s[Len(s)])))

\* The environment key a tag value names.
EnvKeyOf(v) ==
    CASE v = <<>> -> ""
      [] v = <<"F", "O", "O">> -> "FOO"
      [] v = <<"B", "A", "R">> -> "BAR"
      [] v = <<"N", "U", "M">> -> "NUM"

\* A field of a config struct as reflection shows it: the Go identifier,
\* whether it can be set (is exported), whether it is anonymous, its type,
\* the inner part of its cli tag, and for a struct type its own fields.
StructField(goName, exported, anonymous, kind, tag, sub) ==
    [goName |-> goName, exported |-> exported, anonymous |-> anonymous, kind |-> kind,
     tag |-> tag, sub |-> sub]

\* getField: the bound field of a struct field with the tags t; the append
\* tag on a type that is not a slice is an error of getFieldValue.
getField(sf, t) ==
    With(IF t.name = <<>> THEN ToKebabCase(sf.goName) ELSE t.name, LAMBDA name :
        IF t.append /\ ~IsAppendKind(sf.kind)
        THEN BadEntry(Field(name, t.short, sf.kind, t.required, EnvKeyOf(t.env)),
                      BuildErr("append_not_slice", name, {}))
        ELSE FieldEntry(Field(name, t.short, sf.kind, t.required, EnvKeyOf(t.env))))

\* getArgsField: the sink of a struct field, which must be a []string.
getArgsField(sf) ==
    IF sf.kind = "[]string" THEN ArgsEntry(sf.goName)
    ELSE BadEntry(Field(sf.goName, NoName, sf.kind, FALSE, ""),
                  BuildErr("args_not_string_slice", sf.goName, {}))

RECURSIVE reflectFields(_)
\* What the body of the loop of getFields makes of each field of the struct
\* sv before it collects it: the entries of sv.
reflectFields(sv) ==
    [i \in 1..Len(sv) |->
        With(sv[i], LAMBDA sf :
        IF ~sf.exported
        THEN SkipEntry("unexported", Field(sf.goName, NoName, sf.kind, FALSE, ""))
        ELSE With(parseFieldTags(parseStructTagInner(sf.tag)), LAMBDA t :
             IF t.err # NoBuildErr
             THEN BadEntry(Field(sf.goName, NoName, sf.kind, FALSE, ""), t.err)
             ELSE IF t.exclude
             THEN SkipEntry("exclude", Field(sf.goName, NoName, sf.kind, FALSE, ""))
             ELSE IF sf.anonymous \/ t.embed THEN EmbedEntry(reflectFields(sf.sub))
             ELSE IF t.args THEN getArgsField(sf)
             ELSE getField(sf, t)))]

RECURSIVE getFieldsLoop_EmbeddedFirst(_, _)
\* getFields putting the fields of an embedded struct in front of the fields
\* collected so far.
getFieldsLoop_EmbeddedFirst(sv, acc) ==
    IF sv = <<>> \/ acc.err # NoBuildErr THEN acc
    ELSE LET e == Head(sv)
             next ==
                 CASE e.tag \in {"unexported", "exclude"} -> acc
                   [] e.tag = "bad" -> [acc EXCEPT !.err = e.err]
                   [] e.tag = "embed" ->
                        With(getFieldsLoop_EmbeddedFirst(e.sub,
                                 [fields |-> <<>>, argsField |-> NoName, err |-> NoBuildErr]),
                             LAMBDA r :
                             IF r.err # NoBuildErr THEN [acc EXCEPT !.err = r.err]
                             ELSE [fields |-> r.fields \o acc.fields,
                                   argsField |-> IF acc.argsField = NoName THEN r.argsField
                                                 ELSE acc.argsField,
                                   err |-> NoBuildErr])
                   [] e.tag = "args" -> [acc EXCEPT !.argsField = e.f.Name]
                   [] OTHER -> [acc EXCEPT !.fields = Append(@, e.f)]
         IN With(next, LAMBDA acc1 : getFieldsLoop_EmbeddedFirst(Tail(sv), acc1))

RECURSIVE getFieldsLoop(_, _)
\* The loop of getFields over the entries sv, from the accumulated
\* [fields, argsField, err]; argsField is the Name of the sink field, NoName
\* for nil. The loop returns at the first error.
getFieldsLoop(sv, acc) ==
    IF sv = <<>> \/ acc.err # NoBuildErr THEN acc
    ELSE LET e == Head(sv)
             next ==
                 CASE e.tag \in {"unexported", "exclude"} -> acc
                   [] e.tag = "bad" -> [acc EXCEPT !.err = e.err]
                   [] e.tag = "embed" ->
                        With(getFieldsLoop(e.sub, [fields |-> <<>>, argsField |-> NoName,
                                                   err |-> NoBuildErr]),
                             LAMBDA r :
                             IF r.err # NoBuildErr THEN [acc EXCEPT !.err = r.err]
                             ELSE [fields |-> acc.fields \o r.fields,
                                   argsField |-> IF acc.argsField = NoName THEN r.argsField
                                                 ELSE acc.argsField,
                                   err |-> NoBuildErr])
                   [] e.tag = "args" -> [acc EXCEPT !.argsField = e.f.Name]
                   [] OTHER -> [acc EXCEPT !.fields = Append(@, e.f)]
         IN With(next, LAMBDA acc1 : getFieldsLoop(Tail(sv), acc1))

getFields(sv) ==
    getFieldsLoop(sv, [fields |-> <<>>, argsField |-> NoName, err |-> NoBuildErr])

(***************************************************************************)
(* Command construction                                                    *)
(***************************************************************************)
\* addField letting an alias take a key that a field already holds.
addField_AliasOverwrites(cmd, f, prepend) ==
    LET listed == [cmd EXCEPT !.fields = IF prepend THEN <<f>> \o @ ELSE Append(@, f)]
    IN IF f.Name \in DOMAIN cmd.fieldMap
       THEN [listed EXCEPT !.err = BuildErr("duplicate_name", f.Name, {})]
       ELSE LET named == [listed EXCEPT !.fieldMap = Put(@, f.Name, f)]
            IN IF f.ShortName = NoName THEN named
               ELSE [named EXCEPT !.fieldMap = Put(@, f.ShortName, f)]

\* Command.addField: the field is added to the list before the name checks.
addField(cmd, f, prepend) ==
    LET listed == [cmd EXCEPT !.fields = IF prepend THEN <<f>> \o @ ELSE Append(@, f)]
    IN IF f.Name \in DOMAIN cmd.fieldMap
       THEN [listed EXCEPT !.err = BuildErr("duplicate_name", f.Name, {})]
       ELSE LET named == [listed EXCEPT !.fieldMap = Put(@, f.Name, f)]
            IN IF f.ShortName = NoName THEN named
               ELSE IF f.ShortName \in DOMAIN named.fieldMap
               THEN [named EXCEPT !.err = BuildErr("duplicate_name", f.ShortName, {})]
               ELSE [named EXCEPT !.fieldMap = Put(@, f.ShortName, f)]

RECURSIVE addFields(_, _)
\* The loop of Build over the config fields; it returns at the first error.
addFields(cmd, fs) ==
    IF fs = <<>> \/ cmd.err # NoBuildErr THEN cmd
    ELSE With(addField(cmd, Head(fs), FALSE), LAMBDA added : addFields(added, Tail(fs)))

\* The help field with the alias h whatever the table holds.
helpField_AlwaysShort(withShort) ==
    [Name |-> N_help, ShortName |-> N_h, kind |-> "bool",
     Required |-> FALSE, EnvVarName |-> "", injected |-> TRUE]

\* The help field Build injects.
helpField(withShort) ==
    [Name |-> N_help, ShortName |-> IF withShort THEN N_h ELSE NoName, kind |-> "bool",
     Required |-> FALSE, EnvVarName |-> "", injected |-> TRUE]

\* CLI.Build(name, config): config is the config record's entries; before is
\* "none", "ok" or "fail" (the config's Before method and its result); run is
\* "none", "run" or "ctx" (its Run method).
Build(name, config, before, run) ==
    LET bound == getFields(config)
        cmd0 == [name |-> name, shortName |-> NoName, fields |-> <<>>, fieldMap |-> EmptyMap,
                 argsField |-> bound.argsField, parent |-> NoCmd,
                 commands |-> <<>>, commandMap |-> EmptyMap,
                 before |-> before, run |-> run, err |-> bound.err]
        cmd1 == addFields(cmd0, bound.fields)
    IN IF cmd1.err # NoBuildErr THEN cmd1
       ELSE IF N_help \in DOMAIN cmd1.fieldMap THEN cmd1
       ELSE addField(cmd1, helpField(N_h \notin DOMAIN cmd1.fieldMap), TRUE)

\* Command.SetShortName on the command c of a tree: configures a short
\* alias for the command.
SetShortName(tree, c, shortName) == [tree EXCEPT ![c].shortName = shortName]

\* AddCommand letting the child resolve the parent's flags too.
AddCommand_SharesFields(tree, parent, child) ==
    [tree EXCEPT ![child].parent = parent,
                 ![child].fieldMap = [k \in DOMAIN tree[parent].fieldMap \cup DOMAIN @ |->
                                         IF k \in DOMAIN @ THEN @[k]
                                         ELSE tree[parent].fieldMap[k]],
                 ![parent].commands = Append(@, child),
                 ![parent].commandMap = Put(@, tree[child].name, child)]

\* AddCommand registering the child whatever the parent holds.
AddCommand_IgnoresSink(tree, parent, child) ==
    [tree EXCEPT ![child].parent = parent,
                 ![parent].commands = Append(@, child),
                 ![parent].commandMap = Put(@, tree[child].name, child)]

\* Whether Command.AddCommand panics: the parent has an args field.
AddCommandPanics(tree, parent) == tree[parent].argsField # NoName

\* Command.AddCommand on a tree (command id -> Command): registers child
\* under parent; the panic for a parent with an args field comes before
\* any assignment.
AddCommand(tree, parent, child) ==
    IF AddCommandPanics(tree, parent) THEN tree
    ELSE [tree EXCEPT ![child].parent = parent,
                      ![parent].commands = Append(@, child),
                      ![parent].commandMap = Put(@, tree[child].name, child)]

(***************************************************************************)
(* The parser (parse.go)                                                   *)
(*                                                                         *)
(* A parser state p is [args, slot, setCount, err]: parser.args, and the   *)
(* slots and set counts of the fields in parser.fields.                    *)
(***************************************************************************)
NoParseErr == [kind |-> "none", name |-> NoName, value |-> <<>>]

ParseErr(kind, name, value) == [kind |-> kind, name |-> name, value |-> value]

\* fieldValue.Set without the count: the Setter runs, setCount stays.
fieldValueSet_NoCount(p, f, s) ==
    With(fieldSetter(f.kind, p.slot[f.Name], s), LAMBDA r :
        [p |-> [p EXCEPT !.slot[f.Name] = r.val], ok |-> r.ok])

\* fieldValue.Set with the Setter's error dropped.
fieldValueSet_IgnoresFailure(p, f, s) ==
    With(fieldSetter(f.kind, p.slot[f.Name], s), LAMBDA r :
        [p |-> [p EXCEPT !.setCount[f.Name] = @ + 1, !.slot[f.Name] = r.val],
         ok |-> TRUE])

\* fieldValue.Set: setCount is incremented, then the Setter runs on the
\* slot. [p, ok].
fieldValueSet(p, f, s) ==
    With(fieldSetter(f.kind, p.slot[f.Name], s), LAMBDA r :
        [p |-> [p EXCEPT !.setCount[f.Name] = @ + 1, !.slot[f.Name] = r.val],
         ok |-> r.ok])

\* The look-ahead test refusing a next argument that starts with a dash.
canTakeNext_SkipsDashed(p, hasValue, canLookNext) ==
    /\ ~hasValue /\ Len(p.args) > 0 /\ canLookNext
    /\ (Len(p.args[1]) = 0 \/ p.args[1][1] # "-")

\* parseOneFlag's test for taking the next argument as the value.
canTakeNext(p, hasValue, canLookNext) == ~hasValue /\ Len(p.args) > 0 /\ canLookNext

\* parser.parseOneFlag
parseOneFlag(p, fields, name, hasValue, value, canLookNext) ==
    IF name \notin DOMAIN fields
    THEN [p EXCEPT !.err = ParseErr("undefined_flag", name, <<>>)]
    ELSE LET field == fields[name]
         IN IF isBoolFlag(field)
            THEN IF hasValue
                 THEN With(fieldValueSet(p, field, value), LAMBDA r :
                      IF r.ok THEN r.p
                      ELSE [r.p EXCEPT !.err = ParseErr("invalid_boolean_value", name, value)])
                 ELSE With(fieldValueSet(p, field, Tok.true), LAMBDA r :
                      IF r.ok THEN r.p
                      ELSE [r.p EXCEPT !.err = ParseErr("invalid_boolean_flag", name, <<>>)])
            ELSE LET look == canTakeNext(p, hasValue, canLookNext)
                     hasValue1 == hasValue \/ look
                     value1 == IF look THEN p.args[1] ELSE value
                     p1 == IF look THEN [p EXCEPT !.args = Tail(@)] ELSE p
                 IN IF ~hasValue1
                    THEN [p1 EXCEPT !.err = ParseErr("needs_argument", name, <<>>)]
                    ELSE With(fieldValueSet(p1, field, value1), LAMBDA r :
                         IF r.ok THEN r.p
                         ELSE [r.p EXCEPT !.err = ParseErr("invalid_value", name, value1)])

RECURSIVE cluster(_, _, _, _)
\* The loop of parseOne over the characters name[i], i < len(name)-1, of a
\* single-dash token (i counts from 1 here): each is one flag, without an
\* inline value and without look-ahead; the loop returns at the first error.
cluster(p, fields, name, i) ==
    IF i > Len(name) - 1 THEN p
    ELSE With(parseOneFlag(p, fields, <<name[i]>>, FALSE, <<>>, FALSE), LAMBDA p1 :
         IF p1.err # NoParseErr THEN p1
         ELSE cluster(p1, fields, name, i + 1))

\* The position of the first "=" of name that is not its first character,
\* 0 when there is none.
EqualsAt(name) ==
    IF \E i \in 2..Len(name) : name[i] = "="
    THEN CHOOSE i \in 2..Len(name) :
             name[i] = "=" /\ \A j \in 2..(i - 1) : name[j] # "="
    ELSE 0

\* The rest of parseOne for a token that is a flag, after the single-dash
\* loop: the token is consumed, an inline value is split off the name, and
\* the flag is parsed with look-ahead.
parseOneLast(p1, fields, name1) ==
    LET p2 == [p1 EXCEPT !.args = Tail(@)]
        eq == EqualsAt(name1)
        hasValue == eq # 0
        value == IF hasValue THEN Drop(name1, eq) ELSE <<>>
        name2 == IF hasValue THEN SubSeq(name1, 1, eq - 1) ELSE name1
    IN With(parseOneFlag(p2, fields, name2, hasValue, value, TRUE), LAMBDA p3 :
       [p |-> p3, seen |-> p3.err = NoParseErr])

\* The non-flag test without the test of the first character.
isNonFlag_LengthOnly(s) == Len(s) < 2

\* The terminator case leaving "--" in the arguments.
parseOneTerminator_KeepsToken(p) == [p |-> p, seen |-> FALSE]

\* parseOne's test for an argument that ends the flags without being one.
isNonFlag(s) == Len(s) < 2 \/ s[1] # "-"

\* parseOne on the terminator "--".
parseOneTerminator(p) == [p |-> [p EXCEPT !.args = Tail(@)], seen |-> FALSE]

\* parser.parseOne: [p, seen]
parseOne(p, fields) ==
    IF Len(p.args) = 0 THEN [p |-> p, seen |-> FALSE]
    ELSE LET s == p.args[1]
         IN IF isNonFlag(s) THEN [p |-> p, seen |-> FALSE]
            ELSE LET numMinuses == IF s[2] = "-" THEN 2 ELSE 1
                 IN IF numMinuses = 2 /\ Len(s) = 2
                    THEN parseOneTerminator(p)
                    ELSE LET name == Drop(s, numMinuses)
                         IN IF Len(name) = 0 \/ name[1] = "-" \/ name[1] = "="
                            THEN [p |-> [p EXCEPT !.err = ParseErr("bad_flag_syntax", NoName, s)],
                                  seen |-> FALSE]
                            ELSE IF numMinuses = 1
                            THEN With(cluster(p, fields, name, 1), LAMBDA p1 :
                                 IF p1.err # NoParseErr THEN [p |-> p1, seen |-> FALSE]
                                 ELSE parseOneLast(p1, fields, Drop(name, Len(name) - 1)))
                            ELSE parseOneLast(p, fields, name)

(***************************************************************************)
(* Command resolution (Command.ParseArgs and its helpers)                  *)
(***************************************************************************)
NoErr == [kind |-> "none", name |-> NoName, value |-> <<>>, usage |-> FALSE, cmd |-> NoCmd]

\* ParseResult.err on the result of the command c.
ResultErr(kind, name, value, usage, c) ==
    [kind |-> kind, name |-> name, value |-> value, usage |-> usage, cmd |-> c]

\* The help flag never looked at.
helpRequested_Never(cmd, slots) == FALSE

\* cmd.helpRequested: the slot behind the injected help field.
helpRequested(cmd, slots) ==
    \E i \in 1..Len(cmd.fields) :
        cmd.fields[i].injected /\ slots[cmd.fields[i].Name].b

\* The error of a Before or Run method wrapped as a usage error.
HookErr_Wrapped(e, c) ==
    CASE e = "nil" -> NoErr
      [] e = "boom" -> ResultErr("boom", NoName, <<>>, TRUE, c)
      [] e = "usage_boom" -> ResultErr("boom", NoName, <<>>, TRUE, c)
      [] e = "help" -> ResultErr("help", NoName, <<>>, FALSE, c)

\* The error a Before or Run method returns, as the result carries it:
\* nil, a plain error, UsageError(a plain error), or ErrHelp.
HookErr(e, c) ==
    CASE e = "nil" -> NoErr
      [] e = "boom" -> ResultErr("boom", NoName, <<>>, FALSE, c)
      [] e = "usage_boom" -> ResultErr("boom", NoName, <<>>, TRUE, c)
      [] e = "help" -> ResultErr("help", NoName, <<>>, FALSE, c)

\* getRunFunc finding a run capability in every config.
getRunFunc_AlwaysSome(cmd) == "run"

\* getRunFunc: "none" for nil (the config has neither Run() nor Run(ctx)).
getRunFunc(cmd) == cmd.run

\* The help written for usage errors only, not for ErrHelp.
writeHelpIfUsageOrHelpError_UsageOnly(written, writer, e, c) ==
    IF e = NoErr \/ c = NoCmd \/ ~writer THEN written
    ELSE IF e.usage THEN Append(written, c)
    ELSE written

\* ParseResult.writeHelpIfUsageOrHelpError: the help written so far, after
\* the call with the error e of the result whose Command is c.
writeHelpIfUsageOrHelpError(written, writer, e, c) ==
    IF e = NoErr \/ c = NoCmd \/ ~writer THEN written
    ELSE IF e.usage \/ e.kind = "help" THEN Append(written, c)
    ELSE written

\* The help command ignoring the names after "help".
helpWalk_RootOnly(tree, curCmd, rest, i) ==
    [cmd |-> curCmd, unknown |-> NoName, failed |-> FALSE]

RECURSIVE helpWalk(_, _, _, _)
\* The loop of the help command over p.args[i], i >= 1 (i counts from 2
\* here): [cmd, unknown], unknown being the first name that is no child.
helpWalk(tree, curCmd, rest, i) ==
    IF i > Len(rest) THEN [cmd |-> curCmd, unknown |-> NoName, failed |-> FALSE]
    ELSE IF rest[i] \in DOMAIN tree[curCmd].commandMap
    THEN helpWalk(tree, tree[curCmd].commandMap[rest[i]], rest, i + 1)
    ELSE [cmd |-> curCmd, unknown |-> rest[i], failed |-> TRUE]

\* The skip test looking at the slot's value instead of the set count.
envSkipped_ByValue(st, f) == f.EnvVarName = "" \/ st.slot[f.Name] # ZeroValue(f.kind)

\* The skip test not looking at the set count.
envSkipped_NoKeyOnly(st, f) == f.EnvVarName = ""

\* parseEnvVars' test for a field it leaves alone.
envSkipped(st, f) == f.EnvVarName = "" \/ st.setCount[f.Name] > 0

RECURSIVE parseEnvVarsLoop(_, _, _, _)
\* The loop of Command.parseEnvVars of the command c over its fields fs, on
\* st = [slot, setCount, lookups, err]; lookup is the LookupEnv collaborator.
parseEnvVarsLoop(st, c, fs, lookup) ==
    IF fs = <<>> THEN st
    ELSE LET f == Head(fs)
         IN IF envSkipped(st, f)
            THEN parseEnvVarsLoop(st, c, Tail(fs), lookup)
            ELSE With([st EXCEPT !.lookups = Append(@, <<c, f.Name>>)], LAMBDA looked :
                 LET r == lookup[f.EnvVarName]
                 IN IF r.fail
                    THEN [looked EXCEPT !.err = ParseErr("env_lookup", f.Name, <<>>)]
                    ELSE IF ~r.found THEN parseEnvVarsLoop(looked, c, Tail(fs), lookup)
                    ELSE With(fieldValueSet(looked, f, r.val), LAMBDA q :
                         IF q.ok THEN parseEnvVarsLoop(q.p, c, Tail(fs), lookup)
                         ELSE [q.p EXCEPT !.err = ParseErr("env_value", f.Name, r.val)]))

\* parseEnvVars doing its work only for a command without children.
parseEnvVars_TerminalOnly(st, c, cmd, lookup) ==
    IF Len(cmd.commands) # 0 THEN st ELSE parseEnvVarsLoop(st, c, cmd.fields, lookup)

\* Command.parseEnvVars
parseEnvVars(st, c, cmd, lookup) == parseEnvVarsLoop(st, c, cmd.fields, lookup)

RECURSIVE checkRequiredLoop_Last(_, _)
\* The loop going on after a missing field: it fails on the last one.
checkRequiredLoop_Last(fs, counts) ==
    IF fs = <<>> THEN NoName
    ELSE With(checkRequiredLoop_Last(Tail(fs), counts), LAMBDA later :
         IF later # NoName THEN later
         ELSE IF Head(fs).Required /\ counts[Head(fs).Name] < 1 THEN Head(fs).Name
         ELSE NoName)

RECURSIVE checkRequiredLoop(_, _)
\* The loop of Command.checkRequired over the fields fs: the Name of the
\* field it fails on, NoName when it returns nil.
checkRequiredLoop(fs, counts) ==
    IF fs = <<>> THEN NoName
    ELSE IF Head(fs).Required /\ counts[Head(fs).Name] < 1 THEN Head(fs).Name
    ELSE checkRequiredLoop(Tail(fs), counts)

\* Command.checkRequired
\* The required check made only for a command without children.
checkRequired_LeafOnly(cmd, counts) ==
    IF Len(cmd.commands) # 0 THEN NoName ELSE checkRequiredLoop(cmd.fields, counts)

\* The required check never failing.
checkRequired_Skipped(cmd, counts) == NoName

checkRequired(cmd, counts) == checkRequiredLoop(cmd.fields, counts)

(***************************************************************************)
(* The command trees built and the inputs given to them                    *)
(***************************************************************************)
\* A command without children, with a Run method and no Before method.
Leaf(name, config) == Build(name, config, "none", "run")

\* Short flags a, b (boolean) and c (value-taking).
ClusterTree ==
    [root |-> Leaf(<<"r">>, <<FieldEntry(Field(<<"a", "l">>, Tok.a, "bool", FALSE, "")),
                              FieldEntry(Field(<<"b", "e">>, Tok.b, "bool", FALSE, "")),
                              FieldEntry(Field(<<"c", "h">>, Tok.c, "string", FALSE, ""))>>)]

\* One value-taking field flag, alias f.
ValueTree ==
    [root |-> Leaf(<<"r">>, <<FieldEntry(Field(Tok.flag, Tok.f, "string", FALSE, ""))>>)]

\* One boolean field flag, alias f.
BoolTree ==
    [root |-> Leaf(<<"r">>, <<FieldEntry(Field(Tok.flag, Tok.f, "bool", FALSE, ""))>>)]

\* Bool bool; Name string (required, short=n).
RequiredTree ==
    [root |-> Leaf(<<"r">>, <<FieldEntry(Field(Tok.bool, NoName, "bool", FALSE, "")),
                              FieldEntry(Field(Tok.name, Tok.n, "string", TRUE, ""))>>)]

\* A boolean, a string and an int field, with a positional sink.
MixedTree ==
    [root |-> Leaf(<<"r">>, <<FieldEntry(Field(Tok.bool, Tok.b, "bool", FALSE, "")),
                              FieldEntry(Field(Tok.name, Tok.n, "string", FALSE, "")),
                              FieldEntry(Field(Tok.num, NoName, "int", FALSE, "")),
                              ArgsEntry(<<"a", "r", "g", "s">>)>>)]

\* Required fields at two nesting depths, one with an environment key.
NestedTree ==
    [root |-> Leaf(<<"r">>, <<FieldEntry(Field(Tok.bool, Tok.b, "bool", FALSE, "")),
                              EmbedEntry(<<FieldEntry(Field(Tok.foo, Tok.f, "string", TRUE, "FOO")),
                                           SkipEntry("exclude", Field(Tok.x, NoName, "string", TRUE, "")),
                                           FieldEntry(Field(Tok.num, Tok.n, "int", TRUE, "NUM"))>>),
                              FieldEntry(Field(Tok.bar, NoName, "string", TRUE, ""))>>)]

\* A root with environment-backed fields and a child with its own.
EnvTree ==
    AddCommand(
        [root |-> Build(<<"r">>, <<FieldEntry(Field(Tok.foo, Tok.f, "string", FALSE, "FOO")),
                                   FieldEntry(Field(Tok.num, NoName, "int", FALSE, "NUM"))>>,
                        "ok", "none"),
         sub |-> Build(Tok.sub, <<FieldEntry(Field(Tok.bar, NoName, "string", TRUE, "BAR")),
                                FieldEntry(Field(Tok.bool, Tok.b, "bool", FALSE, "NUM"))>>,
                       "none", "run")],
        "root", "sub")

\* A root without Run and with Before, two flags of its own and two
\* children: sub (Before, Run, a child deep) and other (no Before, no Run).
HooksTree ==
    AddCommand(AddCommand(AddCommand(
        [root |-> Build(<<"r">>, <<FieldEntry(Field(Tok.bool, NoName, "bool", FALSE, "")),
                                   FieldEntry(Field(Tok.flag, Tok.f, "bool", FALSE, ""))>>,
                        "ok", "none"),
         sub |-> Build(Tok.sub, <<>>, "ok", "run"),
         other |-> Build(Tok.other, <<FieldEntry(Field(Tok.bool, NoName, "bool", FALSE, ""))>>,
                         "none", "none"),
         deep |-> Build(Tok.deep, <<>>, "none", "run")],
        "root", "sub"), "root", "other"), "sub", "deep")

\* A required pointer field, nil in the config given to Build, and a pointer
\* field that is given a default (see Defaults).
PointerTree ==
    [root |-> Leaf(<<"r">>, <<FieldEntry(Field(Tok.ptr, NoName, "*int", TRUE, "")),
                              FieldEntry(Field(Tok.def, NoName, "*string", FALSE, ""))>>)]

\* Two fields with the append tag, of strings and of pointers to ints.
AppendTree ==
    [root |-> Leaf(<<"r">>, <<FieldEntry(Field(Tok.tags, NoName, "[]string", FALSE, "")),
                              FieldEntry(Field(Tok.nums, NoName, "[]*int", FALSE, ""))>>)]

\* A root without Run and a child subcmd with the short name s.
AliasTree ==
    AddCommand(
        SetShortName([root |-> Build(<<"r">>, <<>>, "none", "none"),
                      sub |-> Build(Tok.sub, <<>>, "none", "run")],
                     "sub", Tok.s),
        "root", "sub")

\* A required field with an environment key and a positional sink that the
\* config fills before Build; the tree is parsed more than once.
ReparseTree ==
    [root |-> Leaf(<<"r">>, <<FieldEntry(Field(Tok.foo, NoName, "string", TRUE, "FOO")),
                              ArgsEntry(<<"a", "r", "g", "s">>)>>)]

Scenarios == {"cluster", "value", "bool", "required", "mixed", "nested", "env", "hooks",
              "pointer", "append", "appendDefault", "alias", "reparse"}

\* A root with a required, environment-backed field, a Before method and
\* no Run method, and three commands below it: sub and one named help under
\* the root, one named help under sub.
OrderTree ==
    AddCommand(AddCommand(AddCommand(
        [root |-> Build(<<"r">>, <<FieldEntry(Field(Tok.name, NoName, "string", TRUE, "FOO"))>>,
                        "ok", "none"),
         sub |-> Build(Tok.sub, <<>>, "none", "run"),
         hlp |-> Build(N_help, <<>>, "none", "run"),
         deep |-> Build(N_help, <<>>, "none", "run")],
        "root", "sub"), "root", "hlp"), "sub", "deep")

\* A pointer to bool, a slice of bool with the append tag, and a bool.
PtrBoolTree ==
    [root |-> Leaf(<<"r">>, <<FieldEntry(Field(Tok.flag, NoName, "*bool", FALSE, "")),
                              FieldEntry(Field(Tok.nums, NoName, "[]bool", FALSE, "")),
                              FieldEntry(Field(Tok.bool, NoName, "bool", FALSE, ""))>>)]

\* One value-taking field with a short alias and one boolean field.
InlineTree ==
    [root |-> Leaf(<<"r">>, <<FieldEntry(Field(Tok.name, Tok.n, "string", FALSE, "")),
                              FieldEntry(Field(Tok.bool, NoName, "bool", FALSE, ""))>>)]

\* Two fields with the append tag and an environment key each, of strings
\* and of pointers to ints, both filled by the config before Build.
AppendEnvTree ==
    [root |-> Leaf(<<"r">>, <<FieldEntry(Field(Tok.tags, NoName, "[]string", FALSE, "FOO")),
                              FieldEntry(Field(Tok.nums, NoName, "[]*int", FALSE, "NUM"))>>)]

\* A command registered under itself.
SelfTree ==
    AddCommand([root |-> Build(<<"r">>, <<FieldEntry(Field(Tok.bool, NoName, "bool", FALSE, ""))>>,
                               "none", "run")],
               "root", "root")

\* The scenarios about the steps of one level and of the levels below it.
LevelScenarios == {"order", "ptrbool", "inline", "appendEnv", "self"}

\* The scenarios whose tree is handed to ParseArgs again after a call.
ReparseScenarios == {"reparse", "alias"}

Tree(scn) ==
    CASE scn = "cluster" -> ClusterTree
      [] scn = "value" -> ValueTree
      [] scn = "bool" -> BoolTree
      [] scn = "required" -> RequiredTree
      [] scn = "mixed" -> MixedTree
      [] scn = "nested" -> NestedTree
      [] scn = "env" -> EnvTree
      [] scn = "hooks" -> HooksTree
      [] scn = "pointer" -> PointerTree
      [] scn \in {"append", "appendDefault"} -> AppendTree
      [] scn = "alias" -> AliasTree
      [] scn = "reparse" -> ReparseTree
      [] scn = "order" -> OrderTree
      [] scn = "ptrbool" -> PtrBoolTree
      [] scn = "inline" -> InlineTree
      [] scn = "self" -> SelfTree
      [] scn = "appendEnv" -> AppendEnvTree

\* The built trees, each constructed once.
Trees == [scn \in Scenarios \cup LevelScenarios |-> Tree(scn)]

\* The tokens the argument vectors of a scenario are made of.
Pool(scn) ==
    CASE scn = "cluster" ->
           {Short(<<"a", "b", "c">>), WithValue(Short(<<"a", "b", "c">>), Tok.v),
            Short(Tok.a), Short(Tok.b), Short(Tok.c), Tok.v}
      [] scn = "value" ->
           {Long(Tok.flag), WithValue(Long(Tok.flag), Tok.x), Short(Tok.f),
            WithValue(Short(Tok.f), Tok.x), Tok.x}
      [] scn = "bool" ->
           {Long(Tok.flag), WithValue(Long(Tok.flag), Tok.false), Short(Tok.f),
            WithValue(Short(Tok.f), Tok.false), Tok.false, WithValue(Long(Tok.flag), <<>>)}
      [] scn = "required" ->
           {Long(Tok.bool), Long(Tok.name), Short(Tok.n), Tok.alice, Long(N_help)}
      [] scn = "mixed" ->
           {DashDash, Dash, Empty, Long(Tok.bool), Long(Tok.name), Long(Tok.other),
            Short(Tok.x), Short(<<"n", "b">>), Short(<<"b", "n">>), Long(Tok.num),
            WithValue(Long(Tok.num), Tok.x), Tok.false, Tok.twelve,
            <<"-", "-", "-", "x">>}
      [] scn = "nested" ->
           {Long(Tok.foo), Short(Tok.n), Long(Tok.bar), Tok.twelve, Short(Tok.b)}
      [] scn = "env" ->
           {Long(Tok.foo), WithValue(Long(Tok.foo), <<>>), Short(N_h), Tok.sub, Tok.quux,
            Long(Tok.bar), WithValue(Long(Tok.num), Tok.twelve), Short(Tok.b), N_help}
      [] scn = "hooks" ->
           {Tok.sub, Tok.other, Tok.deep, Long(Tok.bool), Short(Tok.f), Short(N_h)}
      [] scn = "pointer" ->
           {WithValue(Long(Tok.ptr), Tok.twelve), WithValue(Long(Tok.ptr), Tok.seven),
            WithValue(Long(Tok.ptr), Tok.x), WithValue(Long(Tok.def), Tok.v), Long(Tok.ptr), Tok.twelve}
      [] scn \in {"append", "appendDefault"} ->
           {WithValue(Long(Tok.tags), Tok.x), WithValue(Long(Tok.tags), Tok.v),
            WithValue(Long(Tok.nums), Tok.twelve), WithValue(Long(Tok.nums), Tok.seven),
            WithValue(Long(Tok.nums), Tok.x)}
      [] scn = "alias" -> {Tok.sub, Tok.s, Tok.x}
      [] scn = "reparse" -> {WithValue(Long(Tok.foo), Tok.x), Tok.v, DashDash}
      [] scn = "appendEnv" ->
           {WithValue(Long(Tok.tags), Tok.x), WithValue(Long(Tok.nums), Tok.seven),
            WithValue(Long(Tok.nums), Tok.x)}
      [] scn = "self" -> {<<"r">>, Long(Tok.bool), Tok.x}
      [] scn = "inline" ->
           {WithValue(Long(Tok.name), WithValue(Tok.a, Tok.b)), WithValue(Long(Tok.name), <<>>),
            WithValue(Short(Tok.n), Tok.x), WithValue(Long(Tok.bool), Tok.false),
            Long(Tok.name), Tok.x}
      [] scn = "ptrbool" ->
           {Long(Tok.flag), Long(Tok.nums), Long(Tok.bool), Tok.x, Tok.true}
      [] scn = "order" ->
           {Long(N_help), WithValue(Long(N_help), Tok.false), Long(Tok.other), Tok.sub, N_help,
            WithValue(Long(Tok.name), Tok.x), Tok.x}

\* The longest argument vector of a scenario.
ArgsBound(scn) == IF scn = "cluster" THEN MaxArgs + 1 ELSE MaxArgs

EnvAbsent == [found |-> FALSE, val |-> <<>>, fail |-> FALSE]
EnvFound(v) == [found |-> TRUE, val |-> v, fail |-> FALSE]
EnvFail == [found |-> FALSE, val |-> <<>>, fail |-> TRUE]

EnvKeys == {"FOO", "BAR", "NUM"}

\* The environments a scenario is run in.
Envs(scn) ==
    CASE scn = "env" ->
           {e \in [EnvKeys -> {EnvAbsent, EnvFound(Tok.quux), EnvFound(Tok.twelve), EnvFail}] :
                /\ e["BAR"] \in {EnvAbsent, EnvFound(Tok.quux)}
                /\ e["NUM"] # EnvFail}
      [] scn = "nested" ->
           {e \in [EnvKeys -> {EnvAbsent, EnvFound(Tok.twelve)}] : e["BAR"] = EnvAbsent}
      [] scn = "reparse" ->
           {e \in [EnvKeys -> {EnvAbsent, EnvFound(Tok.quux)}] :
                e["BAR"] = EnvAbsent /\ e["NUM"] = EnvAbsent}
      [] scn = "appendEnv" ->
           {e \in [EnvKeys -> {EnvAbsent, EnvFound(Tok.v), EnvFound(Tok.twelve), EnvFound(Tok.x)}] :
                /\ e["FOO"] \in {EnvAbsent, EnvFound(Tok.v)}
                /\ e["BAR"] = EnvAbsent
                /\ e["NUM"] # EnvFound(Tok.v)}
      [] scn = "order" ->
           {e \in [EnvKeys -> {EnvAbsent, EnvFound(Tok.quux), EnvFail}] :
                e["BAR"] = EnvAbsent /\ e["NUM"] = EnvAbsent}
      [] OTHER -> {[k \in EnvKeys |-> EnvAbsent]}

\* What the Before and Run methods of the configs of a scenario's tree
\* return.
Hooks(scn, tree) ==
    IF scn = "hooks"
    THEN {[before |-> [c \in DOMAIN tree |->
                          IF c = "root" THEN b1 ELSE IF c = "sub" THEN b2 ELSE "nil"],
           run |-> [c \in DOMAIN tree |-> IF c = "sub" THEN r2 ELSE "nil"]] :
              b1 \in {"nil", "boom", "usage_boom"}, b2 \in {"nil", "boom"},
              r2 \in {"nil", "boom", "usage_boom", "help"}}
    ELSE IF scn = "order"
    THEN {[before |-> [c \in DOMAIN tree |-> IF c = "root" THEN b1 ELSE "nil"],
           run |-> [c \in DOMAIN tree |-> "nil"]] : b1 \in {"nil", "boom"}}
    ELSE {[before |-> [c \in DOMAIN tree |-> "nil"],
           run |-> [c \in DOMAIN tree |-> "nil"]]}

\* Whether the CLI of a scenario has a HelpWriter.
HelpWriters(scn) == IF scn = "hooks" THEN BOOLEAN ELSE {TRUE}

FieldNames(cmd) == {cmd.fields[i].Name : i \in 1..Len(cmd.fields)}

FieldNamed(cmd, n) == CHOOSE f \in {cmd.fields[i] : i \in 1..Len(cmd.fields)} : f.Name = n

InitSlots(tree) ==
    [c \in DOMAIN tree |-> [n \in FieldNames(tree[c]) |-> ZeroValue(FieldNamed(tree[c], n).kind)]]

\* The values the config holds when it is given to Build, where they are
\* not the zero values: <<command id, field Name>> -> slot content.
Defaults(scn) ==
    CASE scn = "pointer" ->
           Put(EmptyMap, <<"root", Tok.def>>,
               [nil |-> FALSE, ph |-> [s |-> Tok.quux], wrapped |-> FALSE])
      [] scn \in {"appendDefault", "appendEnv"} ->
           Put(Put(EmptyMap, <<"root", Tok.tags>>, [l |-> <<[s |-> Tok.quux]>>, ph |-> [s |-> <<>>]]),
               <<"root", Tok.nums>>, [l |-> <<1>>, mem |-> <<[i |-> 12]>>, ph |-> [i |-> 0]])
      [] OTHER -> EmptyMap

\* The slots of a scenario's tree after Build: the config's values, zero
\* where it gives none.
BuiltSlots(scn, tree) ==
    [c \in DOMAIN tree |->
        [n \in FieldNames(tree[c]) |->
            IF <<c, n>> \in DOMAIN Defaults(scn) THEN Defaults(scn)[<<c, n>>]
            ELSE ZeroValue(FieldNamed(tree[c], n).kind)]]

\* The slices behind the args fields after Build: what the config holds.
BuiltSinks(scn, tree) ==
    [c \in DOMAIN tree |-> IF scn = "reparse" /\ c = "root" THEN <<Tok.quux>> ELSE <<>>]

InitCounts(tree) == [c \in DOMAIN tree |-> [n \in FieldNames(tree[c]) |-> 0]]

(***************************************************************************)
(* The state machine                                                       *)
(***************************************************************************)
\* No command is under construction.
BuildIdle ==
    /\ cfg = <<>>
    /\ bpc = "idle"
    /\ btree = EmptyMap
    /\ panicked = FALSE
    /\ tagIn = <<>>
    /\ tagOut = EmptyMap

\* The state at the first call of ParseArgs on the root of the tree of one
\* of the scenarios scns.
InitOf(scns) ==
    /\ sc \in scns
    /\ parses = 1
    /\ cmds = Trees[sc]
    /\ env \in Envs(sc)
    /\ argv \in SeqsUpTo(Pool(sc), ArgsBound(sc))
    /\ cur = "root"
    /\ arguments = argv
    /\ args = argv
    /\ pc = "parse"
    /\ slot = BuiltSlots(sc, cmds)
    /\ setCount = InitCounts(cmds)
    /\ sink = BuiltSinks(sc, cmds)
    /\ subCmd = NoCmd
    /\ err = NoErr
    /\ lookups = <<>>
    /\ path = <<"root">>
    /\ beforeCalls = <<>>
    /\ hooks \in Hooks(sc, cmds)
    /\ helpWriter \in HelpWriters(sc)
    /\ runCalls = <<>>
    /\ runErr = NoErr
    /\ helpWritten = <<>>
    /\ BuildIdle

Init == InitOf(Scenarios)

\* The iteration undoing what the failing token has assigned.
ParseOne_RollsBack ==
    /\ pc = "parse"
    /\ LET r == parseOne([args |-> args, slot |-> slot[cur], setCount |-> setCount[cur],
                          err |-> NoParseErr], cmds[cur].fieldMap)
       IN /\ args' = r.p.args
          /\ IF r.p.err # NoParseErr
             THEN /\ err' = ResultErr(r.p.err.kind, r.p.err.name, r.p.err.value, TRUE, cur)
                  /\ pc' = "return"
                  /\ UNCHANGED <<slot, setCount>>
             ELSE /\ err' = err
                  /\ pc' = IF r.seen THEN "parse" ELSE "helpRequested"
                  /\ slot' = [slot EXCEPT ![cur] = r.p.slot]
                  /\ setCount' = [setCount EXCEPT ![cur] = r.p.setCount]
    /\ UNCHANGED <<bvars, parses, sc, cmds, env, argv, hooks, helpWriter, runCalls, runErr, helpWritten, cur, arguments, sink, subCmd, lookups, path,
                   beforeCalls>>

\* One iteration of the loop of parser.parse, and what ParseArgs does with
\* an error from it.
ParseOne ==
    /\ pc = "parse"
    /\ LET r == parseOne([args |-> args, slot |-> slot[cur], setCount |-> setCount[cur],
                          err |-> NoParseErr], cmds[cur].fieldMap)
       IN /\ args' = r.p.args
          /\ slot' = [slot EXCEPT ![cur] = r.p.slot]
          /\ setCount' = [setCount EXCEPT ![cur] = r.p.setCount]
          /\ IF r.p.err # NoParseErr
             THEN /\ err' = ResultErr(r.p.err.kind, r.p.err.name, r.p.err.value, TRUE, cur)
                  /\ pc' = "return"
             ELSE /\ err' = err
                  /\ pc' = IF r.seen THEN "parse" ELSE "helpRequested"
    /\ UNCHANGED <<bvars, parses, sc, cmds, env, argv, hooks, helpWriter, runCalls, runErr, helpWritten, cur, arguments, sink, subCmd, lookups, path,
                   beforeCalls>>

\* ParseArgs: return ErrHelp if help was requested.
CheckHelp ==
    /\ pc = "helpRequested"
    /\ IF helpRequested(cmds[cur], slot[cur])
       THEN /\ err' = ResultErr("help", NoName, <<>>, FALSE, cur)
            /\ pc' = "return"
       ELSE /\ err' = err
            /\ pc' = "helpCommand"
    /\ UNCHANGED <<bvars, parses, sc, cmds, env, argv, hooks, helpWriter, runCalls, runErr, helpWritten, cur, arguments, args, slot, setCount, sink,
                   subCmd, lookups, path, beforeCalls>>

\* ParseArgs: the help command of the root.
HelpCommand ==
    /\ pc = "helpCommand"
    /\ IF /\ cmds[cur].parent = NoCmd
          /\ cmds[cur].argsField = NoName
          /\ Len(args) > 0
          /\ args[1] = N_help
       THEN LET w == helpWalk(cmds, cur, args, 2)
            IN /\ err' = IF w.failed
                         THEN ResultErr("unknown_command", w.unknown, <<>>, TRUE, cur)
                         ELSE ResultErr("help", NoName, <<>>, FALSE, w.cmd)
               /\ pc' = "return"
       ELSE /\ err' = err
            /\ pc' = "residual"
    /\ UNCHANGED <<bvars, parses, sc, cmds, env, argv, hooks, helpWriter, runCalls, runErr, helpWritten, cur, arguments, args, slot, setCount, sink,
                   subCmd, lookups, path, beforeCalls>>

\* The residual step handing the args field the residual without its first
\* token, as if that were a command name.
Residual_SinkDropsFirst ==
    /\ pc = "residual"
    /\ IF Len(args) = 0
       THEN UNCHANGED <<sink, subCmd, err>> /\ pc' = "parseEnvVars"
       ELSE IF cmds[cur].argsField # NoName
       THEN /\ sink' = [sink EXCEPT ![cur] = Tail(args)]
            /\ UNCHANGED <<subCmd, err>>
            /\ pc' = "parseEnvVars"
       ELSE IF DOMAIN cmds[cur].commandMap # {}
       THEN IF args[1] \in DOMAIN cmds[cur].commandMap
            THEN /\ subCmd' = cmds[cur].commandMap[args[1]]
                 /\ UNCHANGED <<sink, err>>
                 /\ pc' = "parseEnvVars"
            ELSE /\ err' = ResultErr("unknown_command", args[1], <<>>, TRUE, cur)
                 /\ UNCHANGED <<sink, subCmd>>
                 /\ pc' = "return"
       ELSE /\ err' = ResultErr("no_arguments_taken", NoName, <<>>, TRUE, cur)
            /\ UNCHANGED <<sink, subCmd>>
            /\ pc' = "return"
    /\ UNCHANGED <<bvars, parses, sc, cmds, env, argv, hooks, helpWriter, runCalls, runErr, helpWritten, cur,
                   arguments, args, slot, setCount, lookups, path, beforeCalls>>

\* The residual step calling the args field's setter with an empty residual
\* too.
Residual_AssignsEmpty ==
    /\ pc = "residual"
    /\ IF cmds[cur].argsField # NoName
       THEN /\ sink' = [sink EXCEPT ![cur] = args]
            /\ UNCHANGED <<subCmd, err>>
            /\ pc' = "parseEnvVars"
       ELSE IF Len(args) = 0
       THEN UNCHANGED <<sink, subCmd, err>> /\ pc' = "parseEnvVars"
       ELSE IF DOMAIN cmds[cur].commandMap # {}
       THEN IF args[1] \in DOMAIN cmds[cur].commandMap
            THEN /\ subCmd' = cmds[cur].commandMap[args[1]]
                 /\ UNCHANGED <<sink, err>>
                 /\ pc' = "parseEnvVars"
            ELSE /\ err' = ResultErr("unknown_command", args[1], <<>>, TRUE, cur)
                 /\ UNCHANGED <<sink, subCmd>>
                 /\ pc' = "return"
       ELSE /\ err' = ResultErr("no_arguments_taken", NoName, <<>>, TRUE, cur)
            /\ UNCHANGED <<sink, subCmd>>
            /\ pc' = "return"
    /\ UNCHANGED <<bvars, parses, sc, cmds, env, argv, hooks, helpWriter, runCalls, runErr, helpWritten, cur, arguments, args, slot, setCount, lookups,
                   path, beforeCalls>>

\* ParseArgs: the remaining arguments go to the args field or name a child.
Residual ==
    /\ pc = "residual"
    /\ IF Len(args) = 0
       THEN UNCHANGED <<sink, subCmd, err>> /\ pc' = "parseEnvVars"
       ELSE IF cmds[cur].argsField # NoName
       THEN /\ sink' = [sink EXCEPT ![cur] = args]
            /\ UNCHANGED <<subCmd, err>>
            /\ pc' = "parseEnvVars"
       ELSE IF DOMAIN cmds[cur].commandMap # {}
       THEN IF args[1] \in DOMAIN cmds[cur].commandMap
            THEN /\ subCmd' = cmds[cur].commandMap[args[1]]
                 /\ UNCHANGED <<sink, err>>
                 /\ pc' = "parseEnvVars"
            ELSE /\ err' = ResultErr("unknown_command", args[1], <<>>, TRUE, cur)
                 /\ UNCHANGED <<sink, subCmd>>
                 /\ pc' = "return"
       ELSE /\ err' = ResultErr("no_arguments_taken", NoName, <<>>, TRUE, cur)
            /\ UNCHANGED <<sink, subCmd>>
            /\ pc' = "return"
    /\ UNCHANGED <<bvars, parses, sc, cmds, env, argv, hooks, helpWriter, runCalls, runErr, helpWritten, cur, arguments, args, slot, setCount, lookups,
                   path, beforeCalls>>

\* ParseArgs: parse environment variables.
ParseEnvVars ==
    /\ pc = "parseEnvVars"
    /\ LET st == parseEnvVars([slot |-> slot[cur], setCount |-> setCount[cur],
                               lookups |-> lookups, err |-> NoParseErr],
                              cur, cmds[cur], env)
       IN /\ slot' = [slot EXCEPT ![cur] = st.slot]
          /\ setCount' = [setCount EXCEPT ![cur] = st.setCount]
          /\ lookups' = st.lookups
          /\ IF st.err # NoParseErr
             THEN /\ err' = ResultErr(st.err.kind, st.err.name, st.err.value, TRUE, cur)
                  /\ pc' = "return"
             ELSE /\ err' = err
                  /\ pc' = "checkRequired"
    /\ UNCHANGED <<bvars, parses, sc, cmds, env, argv, hooks, helpWriter, runCalls, runErr, helpWritten, cur, arguments, args, sink, subCmd, path,
                   beforeCalls>>

\* ParseArgs: fail if a required field was never set.
CheckRequired ==
    /\ pc = "checkRequired"
    /\ LET missing == checkRequired(cmds[cur], setCount[cur])
       IN IF missing # NoName
          THEN /\ err' = ResultErr("required_not_set", missing, <<>>, TRUE, cur)
               /\ pc' = "return"
          ELSE /\ err' = err
               /\ pc' = "Before"
    /\ UNCHANGED <<bvars, parses, sc, cmds, env, argv, hooks, helpWriter, runCalls, runErr, helpWritten, cur, arguments, args, slot, setCount, sink,
                   subCmd, lookups, path, beforeCalls>>

\* ParseArgs: the config's Before method, if it has one; its error is
\* returned as it is.
Before ==
    /\ pc = "Before"
    /\ IF cmds[cur].before = "none"
       THEN UNCHANGED <<beforeCalls, err>> /\ pc' = "subCmd"
       ELSE /\ beforeCalls' = Append(beforeCalls, cur)
            /\ IF hooks.before[cur] # "nil"
               THEN /\ err' = HookErr(hooks.before[cur], cur)
                    /\ pc' = "return"
               ELSE /\ err' = err
                    /\ pc' = "subCmd"
    /\ UNCHANGED <<bvars, parses, sc, cmds, env, argv, hooks, helpWriter, runCalls, runErr, helpWritten, cur, arguments, args, slot, setCount, sink,
                   subCmd, lookups, path>>

\* The recursion handing the child the residual with its own name in it.
Descend_KeepsName ==
    /\ pc = "subCmd"
    /\ subCmd # NoCmd
    /\ cur' = subCmd
    /\ arguments' = args
    /\ args' = args
    /\ subCmd' = NoCmd
    /\ path' = Append(path, subCmd)
    /\ pc' = "parse"
    /\ UNCHANGED <<bvars, parses, sc, cmds, env, argv, hooks, helpWriter, runCalls, runErr, helpWritten, slot, setCount, sink, err, lookups, beforeCalls>>

\* ParseArgs: recurse into the child resolved from the remaining arguments.
Descend ==
    /\ pc = "subCmd"
    /\ subCmd # NoCmd
    /\ cur' = subCmd
    /\ arguments' = Tail(args)
    /\ args' = Tail(args)
    /\ subCmd' = NoCmd
    /\ path' = Append(path, subCmd)
    /\ pc' = "parse"
    /\ UNCHANGED <<bvars, parses, sc, cmds, env, argv, hooks, helpWriter, runCalls, runErr, helpWritten, slot, setCount, sink, err, lookups, beforeCalls>>

\* The last step failing for every command without run capability, a leaf
\* included.
Finish_LeafToo ==
    /\ pc = "subCmd"
    /\ subCmd = NoCmd
    /\ err' = IF getRunFunc(cmds[cur]) = "none"
              THEN ResultErr("no_command_specified", NoName, <<>>, TRUE, cur)
              ELSE err
    /\ pc' = "return"
    /\ UNCHANGED <<bvars, parses, sc, cmds, env, argv, hooks, helpWriter, runCalls, runErr, helpWritten, cur,
                   arguments, args, slot, setCount, sink, subCmd, lookups, path,
                   beforeCalls>>

\* ParseArgs: this command is the one to run.
Finish ==
    /\ pc = "subCmd"
    /\ subCmd = NoCmd
    /\ err' = IF getRunFunc(cmds[cur]) = "none" /\ Len(cmds[cur].commands) # 0
              THEN ResultErr("no_command_specified", NoName, <<>>, TRUE, cur)
              ELSE err
    /\ pc' = "return"
    /\ UNCHANGED <<bvars, parses, sc, cmds, env, argv, hooks, helpWriter, runCalls, runErr, helpWritten, cur, arguments, args, slot, setCount, sink,
                   subCmd, lookups, path, beforeCalls>>

\* ParseResult.RunWithContext on the result of the root's ParseArgs.
Run ==
    /\ pc = "return"
    /\ pc' = "ran"
    /\ IF err # NoErr
       THEN /\ helpWritten' = writeHelpIfUsageOrHelpError(helpWritten, helpWriter, err, err.cmd)
            /\ runErr' = err
            /\ runCalls' = runCalls
       ELSE IF getRunFunc(cmds[cur]) = "none"
       THEN /\ runErr' = ResultErr("no_run_method", NoName, <<>>, FALSE, cur)
            /\ UNCHANGED <<helpWritten, runCalls>>
       ELSE /\ runCalls' = Append(runCalls, cur)
            /\ runErr' = HookErr(hooks.run[cur], cur)
            /\ helpWritten' = writeHelpIfUsageOrHelpError(helpWritten, helpWriter,
                                                          HookErr(hooks.run[cur], cur), cur)
    /\ UNCHANGED <<bvars, parses, sc, cmds, env, argv, hooks, helpWriter, cur, arguments, args, slot, setCount,
                   sink, subCmd, err, lookups, path, beforeCalls>>

\* ParseAgain with the fields put back as Build left them.
ParseAgain_ResetsFields ==
    /\ pc = "ran"
    /\ sc \in ReparseScenarios
    /\ parses < MaxParses
    /\ parses' = parses + 1
    /\ argv' \in SeqsUpTo(Pool(sc), ArgsBound(sc))
    /\ arguments' = argv'
    /\ args' = argv'
    /\ cur' = "root"
    /\ pc' = "parse"
    /\ subCmd' = NoCmd
    /\ err' = NoErr
    /\ lookups' = <<>>
    /\ path' = <<"root">>
    /\ beforeCalls' = <<>>
    /\ runCalls' = <<>>
    /\ runErr' = NoErr
    /\ helpWritten' = <<>>
    /\ slot' = BuiltSlots(sc, cmds)
    /\ setCount' = InitCounts(cmds)
    /\ UNCHANGED <<bvars, sc, cmds, env, hooks, helpWriter, sink>>

\* A further call of ParseArgs on the root of the tree the last call was
\* made on, after its result was run: a new parser and a new result over
\* the same commands, fields, slots and set counts. (The records of the
\* calls observed, lookups to helpWritten, start again with the call.)
ParseAgain ==
    /\ pc = "ran"
    /\ sc \in ReparseScenarios
    /\ parses < MaxParses
    /\ parses' = parses + 1
    /\ argv' \in SeqsUpTo(Pool(sc), ArgsBound(sc))
    /\ arguments' = argv'
    /\ args' = argv'
    /\ cur' = "root"
    /\ pc' = "parse"
    /\ subCmd' = NoCmd
    /\ err' = NoErr
    /\ lookups' = <<>>
    /\ path' = <<"root">>
    /\ beforeCalls' = <<>>
    /\ runCalls' = <<>>
    /\ runErr' = NoErr
    /\ helpWritten' = <<>>
    /\ UNCHANGED <<bvars, sc, cmds, env, hooks, helpWriter, slot, setCount, sink>>

Next ==
    \/ ParseOne
    \/ CheckHelp
    \/ HelpCommand
    \/ Residual
    \/ ParseEnvVars
    \/ CheckRequired
    \/ Before
    \/ Descend
    \/ Finish
    \/ Run

Spec == Init /\ [][Next]_vars

\* The trees that are parsed again: every call of ParseArgs starts from the
\* fields as the call before left them.
ReparseInit == InitOf(ReparseScenarios)

ReparseNext ==
    \/ ParseOne
    \/ CheckHelp
    \/ HelpCommand
    \/ Residual
    \/ ParseEnvVars
    \/ CheckRequired
    \/ Before
    \/ Descend
    \/ Finish
    \/ Run
    \/ ParseAgain

ReparseSpec == ReparseInit /\ [][ReparseNext]_vars

\* The calls of ParseArgs on the trees of the level scenarios.
LevelInit == InitOf(LevelScenarios)

LevelSpec == LevelInit /\ [][Next]_vars

\* The same calls run to their end: ParseArgs and Run are sequential code,
\* each step is taken once the one before it is done.
LevelFairSpec == LevelInit /\ [][Next]_vars /\ WF_vars(Next)

(***************************************************************************)
(* The construction of a command: Build, AddCommand, the struct tags       *)
(***************************************************************************)
MaxFields == 3
MaxItems == 3

\* The fields the config structs are made of, by their Go identifiers.
Fld ==
    [
     \* A string field named by its identifier.
     Foo |->
         StructField(<<"F", "o", "o">>, TRUE, FALSE, "string", <<>>, <<>>),
     Num |->
         StructField(<<"N", "u", "m">>, TRUE, FALSE, "int", <<"r", "e", "q", "u", "i", "r", "e", "d">>, <<>>),
     \* A field whose derived name is one character.
     B |->
         StructField(<<"B">>, TRUE, FALSE, "bool", <<>>, <<>>),
     \* A field with the alias b.
     BarB |->
         StructField(<<"B", "a", "r">>, TRUE, FALSE, "string", <<"s", "h", "o", "r", "t", "=", "b">>, <<>>),
     \* A field given the name foo by its tag.
     Other |->
         StructField(<<"O", "t", "h", "e", "r">>, TRUE, FALSE, "string", <<"n", "a", "m", "e", "=", "f", "o", "o", ",", "h", "e", "l", "p", "=", "'", "a", ",", " ", "b", "'">>, <<>>),
     \* A field named help.
     Help |->
         StructField(<<"H", "e", "l", "p">>, TRUE, FALSE, "bool", <<>>, <<>>),
     \* A field named h.
     H |->
         StructField(<<"H">>, TRUE, FALSE, "bool", <<>>, <<>>),
     \* A field with the alias h.
     HostH |->
         StructField(<<"H", "o", "s", "t">>, TRUE, FALSE, "string", <<"s", "h", "o", "r", "t", "=", "h", ",", "e", "n", "v", "=", "F", "O", "O">>, <<>>),
     \* A positional sink.
     Args |->
         StructField(<<"A", "r", "g", "s">>, TRUE, FALSE, "[]string", <<"a", "r", "g", "s">>, <<>>),
     \* Another positional sink.
     Rest |->
         StructField(<<"R", "e", "s", "t">>, TRUE, FALSE, "[]string", <<"a", "r", "g", "s">>, <<>>),
     \* A field tagged "-".
     Skip |->
         StructField(<<"S", "k", "i", "p">>, TRUE, FALSE, "string", <<"-">>, <<>>),
     \* An unexported field; its tag is never looked at.
     priv |->
         StructField(<<"p", "r", "i", "v">>, FALSE, FALSE, "string", <<"f", "o", "o", "=", "b", "a", "r">>, <<>>),
     \* A field with one unknown key among valid ones.
     Baz |->
         StructField(<<"B", "a", "z">>, TRUE, FALSE, "string", <<"f", "o", "o", "=", "b", "a", "r", ",", "r", "e", "q", "u", "i", "r", "e", "d">>, <<>>),
     \* A field with two unknown keys among valid ones.
     Qux |->
         StructField(<<"Q", "u", "x">>, TRUE, FALSE, "string", <<"f", "o", "o", ",", "s", "h", "o", "r", "t", "=", "q", ",", "b", "a", "r", "=", "1">>, <<>>),
     \* A field with a short name of two characters and an unknown key.
     Bad |->
         StructField(<<"B", "a", "d">>, TRUE, FALSE, "string", <<"s", "h", "o", "r", "t", "=", "a", "b", ",", "f", "o", "o">>, <<>>)]

\* The struct-typed fields.
FldStruct ==
    [
     \* An anonymous struct holding a field and a sink.
     Inner |->
         StructField(<<"I", "n", "n", "e", "r">>, TRUE, TRUE, "struct", <<>>, <<Fld.HostH, Fld.Args>>),
     \* A struct flattened by the embed tag, holding a "-" field and an
     \* anonymous struct.
     Emb |->
         StructField(<<"E", "m", "b">>, TRUE, FALSE, "struct", <<"e", "m", "b", "e", "d">>, <<Fld.Num, Fld.Skip, StructField(<<"D", "e", "e", "p">>, TRUE, TRUE, "struct", <<>>, <<Fld.Foo>>), Fld.B>>)]

\* The struct fields the configs are made of.
StructFields ==
    {Fld.Foo, Fld.Num, Fld.B, Fld.BarB, Fld.Other, Fld.Help,
     Fld.H, Fld.HostH, Fld.Args, Fld.Rest, Fld.Skip, Fld.priv,
     Fld.Baz, Fld.Qux, Fld.Bad, FldStruct.Inner, FldStruct.Emb}

\* The config structs handed to Build: the fields of a struct have
\* different identifiers.
Configs ==
    {c \in SeqsUpTo(StructFields, MaxFields) :
        \A i, j \in 1..Len(c) : c[i].goName = c[j].goName => i = j}

\* An item of a tag: a bare key, key=value, or key='value'.
TagItem(key, val, form) == [key |-> key, val |-> val, form |-> form]

\* The items the tags handed to parseStructTagInner are made of.
TagItems ==
    {TagItem(<<"f", "o", "o">>, <<>>, "bare"),
     TagItem(<<"f", "o", "o">>, <<"b", "a", "r">>, "plain"),
     TagItem(<<"b", "a", "z">>, <<"q", ",", "x">>, "quoted"),
     TagItem(<<"b", " ", "z">>, <<"4", " ", "2">>, "plain"),
     TagItem(<<"b", "a", "r">>, <<"o", ",", " ", "t">>, "quoted"),
     TagItem(<<"b", "a", "z">>, <<>>, "bare")}

\* An item as it is written in a tag.
FormatItem(it) ==
    CASE it.form = "bare" -> it.key
      [] it.form = "plain" -> it.key \o <<"=">> \o it.val
      [] it.form = "quoted" -> it.key \o <<"=", "'">> \o it.val \o <<"'">>

RECURSIVE FormatItems(_)
\* The items written as a comma-separated list.
FormatItems(its) ==
    IF its = <<>> THEN <<>>
    ELSE IF Len(its) = 1 THEN FormatItem(its[1])
    ELSE FormatItem(its[1]) \o <<",">> \o FormatItems(Tail(its))

\* A list with a space after its comma.
SpacedTag == <<"f", "o", "o", "=", "b", "a", "r", ",", " ", "b", "a", "z", "=", "q", "u", "u", "x">>

\* The tags handed to parseStructTagInner.
TagInputs == {FormatItems(its) : its \in SeqsUpTo(TagItems, MaxItems)} \cup {SpacedTag}

\* No parse is running.
ParseIdle ==
    /\ sc = "none"
    /\ parses = 0
    /\ cmds = EmptyMap
    /\ env = EmptyMap
    /\ argv = <<>>
    /\ cur = NoCmd
    /\ arguments = <<>>
    /\ args = <<>>
    /\ pc = "idle"
    /\ slot = EmptyMap
    /\ setCount = EmptyMap
    /\ sink = EmptyMap
    /\ subCmd = NoCmd
    /\ err = NoErr
    /\ lookups = <<>>
    /\ path = <<>>
    /\ beforeCalls = <<>>
    /\ hooks = EmptyMap
    /\ helpWriter = FALSE
    /\ runCalls = <<>>
    /\ runErr = NoErr
    /\ helpWritten = <<>>

\* Either a tag is about to be parsed, or a config is about to be built.
BuildInit ==
    /\ ParseIdle
    /\ btree = EmptyMap
    /\ panicked = FALSE
    /\ tagOut = EmptyMap
    /\ \/ bpc = "tag" /\ tagIn \in TagInputs /\ cfg = <<>>
       \/ bpc = "build" /\ cfg \in Configs /\ tagIn = <<>>

\* parseStructTagInner(tagIn)
ParseTag ==
    /\ bpc = "tag"
    /\ tagOut' = parseStructTagInner(tagIn)
    /\ bpc' = "done"
    /\ UNCHANGED <<pvars, cfg, btree, panicked, tagIn>>

\* p := Build("p", &cfg) and c := Build("sub", nil). A failed Build returns
\* no command: the construction ends.
BuildCommand ==
    /\ bpc = "build"
    /\ btree' = [p |-> Build(<<"p">>, reflectFields(cfg), "none", "run"),
                 c |-> Build(Tok.sub, <<>>, "none", "run")]
    /\ bpc' = IF btree'.p.err # NoBuildErr THEN "done" ELSE "built"
    /\ UNCHANGED <<pvars, cfg, panicked, tagIn, tagOut>>

\* p.AddCommand(c)
AddChild ==
    /\ bpc = "built"
    /\ btree' = AddCommand(btree, "p", "c")
    /\ panicked' = AddCommandPanics(btree, "p")
    /\ bpc' = "done"
    /\ UNCHANGED <<pvars, cfg, tagIn, tagOut>>

BuildNext ==
    \/ ParseTag
    \/ BuildCommand
    \/ AddChild

BuildSpec == BuildInit /\ [][BuildNext]_vars

(***************************************************************************)
(* Properties                                                              *)
(***************************************************************************)
Returned == pc = "return"

\* The slot and set count of the field named n of the root.
RootSlot(n) == slot["root"][n]
RootCount(n) == setCount["root"][n]

ClusterForms ==
    {<<Short(<<"a", "b", "c">>), Tok.v>>,
     <<Short(Tok.a), Short(Tok.b), Short(Tok.c), Tok.v>>,
     <<WithValue(Short(<<"a", "b", "c">>), Tok.v)>>}

\* C1: with boolean fields aliased a and b and a value-taking field aliased
\* c, each of -abc v, -a -b -c v and -abc=v ends without error with a = true,
\* b = true, c = v, each field set exactly once, and nothing left over.
C1_ClusterFormsAgree ==
    (sc = "cluster" /\ argv \in ClusterForms /\ Returned) =>
        /\ err = NoErr
        /\ RootSlot(<<"a", "l">>) = [b |-> TRUE]
        /\ RootSlot(<<"b", "e">>) = [b |-> TRUE]
        /\ RootSlot(<<"c", "h">>) = [s |-> Tok.v]
        /\ RootCount(<<"a", "l">>) = 1
        /\ RootCount(<<"b", "e">>) = 1
        /\ RootCount(<<"c", "h">>) = 1
        /\ args = <<>>

\* The two forms of C1 that keep the value in its own token do agree.
C1_SeparateValueFormsAgree ==
    (sc = "cluster" /\ argv \in ClusterForms /\ Len(argv) > 1 /\ Returned) =>
        /\ err = NoErr
        /\ RootSlot(<<"a", "l">>) = [b |-> TRUE]
        /\ RootSlot(<<"b", "e">>) = [b |-> TRUE]
        /\ RootSlot(<<"c", "h">>) = [s |-> Tok.v]
        /\ RootCount(<<"a", "l">>) = 1
        /\ RootCount(<<"b", "e">>) = 1
        /\ RootCount(<<"c", "h">>) = 1
        /\ args = <<>>

ValueForms ==
    {<<WithValue(Long(Tok.flag), Tok.x)>>, <<Long(Tok.flag), Tok.x>>,
     <<WithValue(Short(Tok.f), Tok.x)>>, <<Short(Tok.f), Tok.x>>}

BoolFalseForms ==
    {<<WithValue(Short(Tok.f), Tok.false)>>, <<WithValue(Long(Tok.flag), Tok.false)>>}

\* C2: for a value-taking field flag with alias f, each of --flag=x,
\* --flag x, -f=x and -f x is accepted and leaves the field holding x, set
\* once, with nothing left over; for a boolean field, -f=false and
\* --flag=false both leave it false.
C2_PermittedFormsAgree ==
    /\ (sc = "value" /\ argv \in ValueForms /\ Returned) =>
           /\ err = NoErr
           /\ RootSlot(Tok.flag) = [s |-> Tok.x]
           /\ RootCount(Tok.flag) = 1
           /\ args = <<>>
    /\ (sc = "bool" /\ argv \in BoolFalseForms /\ Returned) =>
           /\ err = NoErr
           /\ RootSlot(Tok.flag) = [b |-> FALSE]

\* The forms of C2 that the parser does accept: the long forms and -f x.
C2_LongAndSeparateFormsAgree ==
    /\ (sc = "value" /\ argv \in ValueForms \ {<<WithValue(Short(Tok.f), Tok.x)>>} /\ Returned) =>
           /\ err = NoErr
           /\ RootSlot(Tok.flag) = [s |-> Tok.x]
           /\ RootCount(Tok.flag) = 1
           /\ args = <<>>
    /\ (sc = "bool" /\ argv = <<WithValue(Long(Tok.flag), Tok.false)>> /\ Returned) =>
           /\ err = NoErr
           /\ RootSlot(Tok.flag) = [b |-> FALSE]

(***************************************************************************)
(* The flag scan: terminators and residual                                 *)
(***************************************************************************)
\* The scan of the running level is about to look at its next argument.
AtFlagPosition == pc = "parse" /\ args # <<>>

\* The token does not start with "-", or is exactly "-".
PlainToken(t) == Len(t) = 0 \/ t[1] # "-" \/ t = Dash

\* C3: when the scan meets "--" in flag position it consumes it and stops:
\* what is left is exactly the tokens after it, no field and no set count
\* changes, nothing fails, and the scan of this level never resumes, so no
\* token after it is looked up as a flag.
C3_TerminatorStopsScan ==
    [][/\ (AtFlagPosition /\ Head(args) = DashDash) =>
              /\ args' = Tail(args)
              /\ pc' = "helpRequested"
              /\ UNCHANGED <<slot, setCount, err, cur>>
       /\ (pc \notin {"parse", "subCmd"}) => (pc' # "parse" /\ args' = args)
       /\ pc # "parseEnvVars" =>
              \A c \in DOMAIN cmds :
                  (c # cur \/ pc # "parse") =>
                      (slot'[c] = slot[c] /\ setCount'[c] = setCount[c])]_vars

\* A scan ended by "--" with dash-led tokens behind it, all of them residual.
C3_Witness ==
    /\ sc = "mixed"
    /\ pc = "helpRequested"
    /\ argv = <<Long(Tok.bool), DashDash, Long(Tok.other)>>
    /\ args = <<Long(Tok.other)>>
    /\ RootSlot(Tok.bool) = [b |-> TRUE]

\* C4: the scan of a level stops just before the first token in flag
\* position that does not start with "-" or is exactly "-", which stays in
\* the residual with everything behind it; the residual is always a suffix
\* of the level's arguments (and these of the root's), and once the scan of a
\* level has stopped no later token is applied at that level.
C4_ResidualIsSuffix ==
    /\ [](IsSuffix(args, arguments) /\ IsSuffix(arguments, argv))
    /\ [][/\ (AtFlagPosition /\ PlainToken(Head(args))) =>
                 /\ args' = args
                 /\ pc' = "helpRequested"
                 /\ UNCHANGED <<slot, setCount, err, cur>>
          /\ (pc \notin {"parse", "subCmd"}) => (pc' # "parse" /\ args' = args)
          /\ (pc \notin {"parse", "parseEnvVars"}) => UNCHANGED <<slot, setCount>>]_vars

\* A scan stopped by a plain token with a defined flag behind it, unapplied.
C4_Witness ==
    /\ sc = "mixed"
    /\ pc = "parseEnvVars"
    /\ argv = <<Long(Tok.bool), Tok.false, Long(Tok.num)>>
    /\ args = <<Tok.false, Long(Tok.num)>>
    /\ RootCount(Tok.num) = 0
    /\ sink["root"] = args

(***************************************************************************)
(* Resolving one flag                                                      *)
(***************************************************************************)
\* The bound fields of the command c, and of the running command.
FieldsOf(c) == {cmds[c].fields[i] : i \in 1..Len(cmds[c].fields)}
CurFields == FieldsOf(cur)

\* The tokens that name the field f alone, without an inline value.
BareForms(f) ==
    {Long(f.Name)} \cup (IF f.ShortName = NoName THEN {} ELSE {Short(f.ShortName)})

\* The name a bare form of f gives the flag.
NameIn(tok) == IF tok[2] = "-" THEN Drop(tok, 2) ELSE Drop(tok, 1)

\* The value a slot of the given kind holds: for a pointer what it points
\* at, [nil |-> TRUE] when it is nil.
Held(kind, c) ==
    IF IsPointerKind(kind) THEN (IF c.nil THEN [nil |-> TRUE] ELSE c.ph) ELSE c

\* What a Set of the token v does to the slot and set count of f.
SetApplied(f, v) ==
    /\ setCount'[cur][f.Name] = setCount[cur][f.Name] + 1
    /\ ~IsAppendKind(f.kind) =>
           Held(f.kind, slot'[cur][f.Name]) =
               IF SetterSet(ElemKind(f.kind), v).ok THEN SetterSet(ElemKind(f.kind), v).val
               ELSE Held(f.kind, slot[cur][f.Name])

\* C5: whether the token after a flag is consumed depends only on the field
\* being boolean: a non-boolean flag without inline value takes the next
\* token as its value whatever it looks like ("-x", "--other", "--"); a
\* boolean flag becomes true and leaves the next token in place.
C5_LookAheadByKindOnly ==
    /\ []((sc = "mixed" /\ argv = <<Long(Tok.bool), Tok.false>> /\ pc # "parse") =>
              (RootSlot(Tok.bool) = [b |-> TRUE] /\ args = <<Tok.false>>))
    /\ [][\A f \in CurFields :
         (AtFlagPosition /\ Head(args) \in BareForms(f)) =>
             /\ (~isBoolFlag(f) /\ Len(args) >= 2) =>
                    /\ args' = Drop(args, 2)
                    /\ SetApplied(f, args[2])
                    /\ (f.kind = "string" => slot'[cur][f.Name] = [s |-> args[2]])
             /\ isBoolFlag(f) =>
                    /\ args' = Tail(args)
                    /\ slot'[cur][f.Name] = [b |-> TRUE]
                    /\ err' = err]_vars

\* --name took the terminator "--" as its value.
C5_Witness ==
    /\ sc = "mixed"
    /\ pc = "helpRequested"
    /\ argv = <<Long(Tok.name), DashDash>>
    /\ RootSlot(Tok.name) = [s |-> DashDash]
    /\ args = <<>>

\* The running ParseArgs returns the usage error of the given kind.
FailsWith(kind, name, value) ==
    /\ err' = ResultErr(kind, name, value, TRUE, cur)
    /\ pc' = "return"

UndefinedNames == {Tok.other, Tok.x, Tok.v, Tok.quux}

\* C6: a name or alias missing from the level's lookup table is an
\* undefined-flag error naming it; a non-boolean field without inline value
\* and without a following token is a missing-argument error; so is a
\* non-boolean field at a non-final place of a short-flag cluster, even with
\* tokens following; a failing Setter is an invalid-value error with the flag
\* name and the raw token. Each is returned by ParseArgs as a usage error.
C6_FlagFailures ==
    [][AtFlagPosition =>
         /\ \A n \in UndefinedNames \ DOMAIN cmds[cur].fieldMap :
                /\ Head(args) = Long(n) => FailsWith("undefined_flag", n, <<>>)
                /\ (Len(n) = 1 /\ Head(args) = Short(n)) => FailsWith("undefined_flag", n, <<>>)
         /\ \A f \in CurFields :
                ~isBoolFlag(f) =>
                    /\ (Head(args) \in BareForms(f) /\ Len(args) = 1) =>
                           FailsWith("needs_argument", NameIn(Head(args)), <<>>)
                    /\ (/\ f.ShortName # NoName
                        /\ Len(Head(args)) = 3
                        /\ SubSeq(Head(args), 1, 2) = Short(f.ShortName)) =>
                           FailsWith("needs_argument", f.ShortName, <<>>)
                    /\ (/\ Head(args) \in BareForms(f)
                        /\ Len(args) >= 2
                        /\ ~SetterSet(ElemKind(f.kind), args[2]).ok) =>
                           FailsWith("invalid_value", NameIn(Head(args)), args[2])
                    /\ \A v \in {Tok.x, Tok.twelve} :
                           (Head(args) = WithValue(Long(f.Name), v) /\ ~SetterSet(ElemKind(f.kind), v).ok) =>
                               FailsWith("invalid_value", f.Name, v)
         /\ \A f \in CurFields :
                (isBoolFlag(f) /\ Head(args) = WithValue(Long(f.Name), <<>>)) =>
                    FailsWith("invalid_boolean_value", f.Name, <<>>)]_vars

\* A value-taking alias in a non-final place of a cluster, with a token
\* following, ended the parse as a missing argument.
C6_Witness ==
    /\ sc = "mixed"
    /\ Returned
    /\ argv = <<Short(<<"n", "b">>), Tok.twelve>>
    /\ err = ResultErr("needs_argument", Tok.n, <<>>, TRUE, "root")
    /\ args = argv

(***************************************************************************)
(* Required fields                                                         *)
(***************************************************************************)
\* C7: with a boolean field bool and a required string field name aliased
\* n, ["--bool","-n","alice"] gives bool = true, name = alice, no residual
\* and no error, and ["--bool"] gives the required-field usage error naming
\* name. A flag given by its alias raises the set count of its field, and the
\* required error only ever names a field whose set count is 0.
C7_AliasCountsForRequired ==
    /\ []((sc = "required" /\ Returned) =>
             /\ argv = <<Long(Tok.bool), Short(Tok.n), Tok.alice>> =>
                    /\ err = NoErr
                    /\ RootSlot(Tok.bool) = [b |-> TRUE]
                    /\ RootSlot(Tok.name) = [s |-> Tok.alice]
                    /\ args = <<>>
             /\ argv = <<Long(Tok.bool)>> =>
                    err = ResultErr("required_not_set", Tok.name, <<>>, TRUE, "root"))
    /\ [](err.kind = "required_not_set" => setCount[err.cmd][err.name] = 0)
    /\ [][\A f \in CurFields :
            (/\ AtFlagPosition
             /\ f.ShortName # NoName
             /\ Head(args) = Short(f.ShortName)
             /\ (isBoolFlag(f) \/ Len(args) >= 2)) =>
                setCount'[cur][f.Name] = setCount[cur][f.Name] + 1]_vars

\* The required field was given by its alias only and the parse succeeded.
C7_Witness ==
    /\ sc = "required"
    /\ Returned
    /\ argv = <<Long(Tok.bool), Short(Tok.n), Tok.alice>>
    /\ err = NoErr
    /\ RootCount(Tok.name) = 1

\* The places, in bound-field order, of the required fields of c never set.
MissingAt(c) ==
    {i \in 1..Len(cmds[c].fields) :
        cmds[c].fields[i].Required /\ setCount[c][cmds[c].fields[i].Name] = 0}

\* C8: checkRequired fails exactly when some required field has set count 0
\* after the environment pass, and names the first such field in bound-field
\* order and no other; the bound-field order is the declaration order with
\* embedded records flattened in place (for the nested config: help, bool,
\* foo, num, bar).
C8_FirstMissingOnly ==
    /\ [](sc = "nested" =>
             [i \in 1..Len(cmds["root"].fields) |-> cmds["root"].fields[i].Name]
                 = <<N_help, Tok.bool, Tok.foo, Tok.num, Tok.bar>>)
    /\ [][pc = "checkRequired" =>
            IF MissingAt(cur) = {}
            THEN pc' = "Before" /\ err' = err
            ELSE \E i \in MissingAt(cur) :
                     /\ \A j \in MissingAt(cur) : i <= j
                     /\ err' = ResultErr("required_not_set", cmds[cur].fields[i].Name,
                                         <<>>, TRUE, cur)
                     /\ pc' = "return"]_vars

\* Three required fields are missing and the first, an embedded one, is named.
C8_Witness ==
    /\ sc = "nested"
    /\ Returned
    /\ MissingAt("root") = {3, 4, 5}
    /\ err = ResultErr("required_not_set", Tok.foo, <<>>, TRUE, "root")

(***************************************************************************)
(* The environment pass                                                    *)
(***************************************************************************)
\* The number of lookups made for the field n of the command c.
LookupsOf(l, c, n) == Cardinality({i \in 1..Len(l) : l[i] = <<c, n>>})

\* C9: parseEnvVars makes no lookup for, and does not change the value or
\* the set count of, a field with set count > 0, whatever its value (the zero
\* value and the empty string included) and whatever the environment holds;
\* no other step makes a lookup.
C9_ArgumentBeatsEnvironment ==
    [][/\ pc = "parseEnvVars" =>
              \A f \in CurFields :
                  setCount[cur][f.Name] > 0 =>
                      /\ slot'[cur][f.Name] = slot[cur][f.Name]
                      /\ setCount'[cur][f.Name] = setCount[cur][f.Name]
                      /\ LookupsOf(lookups', cur, f.Name) = 0
       /\ pc # "parseEnvVars" => lookups' = lookups]_vars

\* --foo= set foo to the empty string; the environment holds FOO and the
\* pass left foo alone.
C9_Witness ==
    /\ sc = "env"
    /\ pc = "checkRequired"
    /\ argv = <<WithValue(Long(Tok.foo), <<>>)>>
    /\ env["FOO"] = EnvFound(Tok.quux)
    /\ RootSlot(Tok.foo) = [s |-> <<>>]
    /\ RootCount(Tok.foo) = 1
    /\ LookupsOf(lookups, "root", Tok.foo) = 0

\* C10: at every level on the path to the resolved command, when the
\* environment pass of the level completes, each field with an environment
\* key and set count 0 after the flag scan has been looked up once; a found
\* value went through the Setter of the field, so the slot holds the coerced
\* value and the set count is 1; an absent key left both as they were. A
\* required field found in the environment is not reported missing.
C10_EnvFallbackEveryLevel ==
    /\ [][(pc = "parseEnvVars" /\ pc' = "checkRequired") =>
             \A f \in CurFields :
                 (f.EnvVarName # "" /\ setCount[cur][f.Name] = 0) =>
                     /\ LookupsOf(lookups', cur, f.Name) = 1
                     /\ IF env[f.EnvVarName].found
                        THEN /\ SetterSet(f.kind, env[f.EnvVarName].val).ok
                             /\ slot'[cur][f.Name] = SetterSet(f.kind, env[f.EnvVarName].val).val
                             /\ setCount'[cur][f.Name] = 1
                        ELSE /\ slot'[cur][f.Name] = slot[cur][f.Name]
                             /\ setCount'[cur][f.Name] = 0]_vars
    /\ []((Returned /\ err = NoErr) =>
             \A i \in 1..Len(path) : \A f \in FieldsOf(path[i]) :
                 f.EnvVarName # "" =>
                     IF LookupsOf(lookups, path[i], f.Name) = 0
                     THEN setCount[path[i]][f.Name] > 0
                     ELSE IF env[f.EnvVarName].found
                     THEN /\ slot[path[i]][f.Name] = SetterSet(f.kind, env[f.EnvVarName].val).val
                          /\ setCount[path[i]][f.Name] = 1
                     ELSE /\ slot[path[i]][f.Name] = ZeroValue(f.kind)
                          /\ setCount[path[i]][f.Name] = 0)
    /\ [](err.kind = "required_not_set" =>
             LET f == FieldNamed(cmds[err.cmd], err.name)
             IN f.EnvVarName # "" => ~env[f.EnvVarName].found)

\* Root and child took a field each from the environment, the child's being
\* required, and the child was resolved.
C10_Witness ==
    /\ sc = "env"
    /\ Returned
    /\ err = NoErr
    /\ path = <<"root", "sub">>
    /\ argv = <<Tok.sub>>
    /\ RootSlot(Tok.foo) = [s |-> Tok.quux]
    /\ RootCount(Tok.foo) = 1
    /\ slot["sub"][Tok.bar] = [s |-> Tok.quux]
    /\ setCount["sub"][Tok.bar] = 1

(***************************************************************************)
(* Error classes, help                                                     *)
(***************************************************************************)
\* C11: an error of the environment lookup itself (not an absent key) ends
\* ParseArgs with an error that is not a usage error, and Run writes no help
\* for it.
C11_EnvLookupErrorNotUsage ==
    err.kind = "env_lookup" => (~err.usage /\ helpWritten = <<>>)

\* The help flag of the command c is set.
HelpSet(c) == slot[c][N_help].b

\* C12: when the help flag is set at a level whose flag scan succeeded,
\* ParseArgs returns the help signal for that command, which is no usage
\* error, before the environment pass, the required check and the Before
\* hook of the level: no lookup is made for the level, its Before is not
\* called, and a missing required field does not change the result.
C12_HelpBeforeEnvRequiredBefore ==
    /\ [][(pc = "helpRequested" /\ HelpSet(cur)) =>
             /\ pc' = "return"
             /\ err' = ResultErr("help", NoName, <<>>, FALSE, cur)
             /\ UNCHANGED <<lookups, beforeCalls, slot, setCount>>]_vars
    /\ []((HelpSet(cur) /\ pc \notin {"parse", "helpRequested"}) =>
             /\ pc \in {"return", "ran"}
             /\ err.cmd = cur
             /\ err.kind = "help" => ~err.usage
             /\ err.kind # "required_not_set"
             /\ \A f \in CurFields : LookupsOf(lookups, cur, f.Name) = 0
             /\ \A i \in 1..Len(beforeCalls) : beforeCalls[i] # cur)

\* Help asked of the child, whose required field is missing and whose other
\* field has a value waiting in the environment.
C12_Witness ==
    /\ sc = "env"
    /\ Returned
    /\ argv = <<Tok.sub, Short(N_h)>>
    /\ env["NUM"] = EnvFound(Tok.twelve)
    /\ err = ResultErr("help", NoName, <<>>, FALSE, "sub")
    /\ MissingAt("sub") # {}
    /\ beforeCalls = <<"root">>
    /\ LookupsOf(lookups, "sub", Tok.bool) = 0

(***************************************************************************)
(* Residual disposition                                                    *)
(***************************************************************************)
\* The children of c whose registered name is the token t.
ChildrenNamed(c, t) ==
    {cmds[c].commands[i] : i \in {j \in 1..Len(cmds[c].commands) :
                                     cmds[cmds[c].commands[j]].name = t}}

C14_NoResidualWithChildrenFails ==
    [][(pc = "subCmd" /\ args = <<>> /\ Len(cmds[cur].commands) > 0) =>
          (err' = ResultErr("no_command_specified", NoName, <<>>, TRUE, cur)
           /\ pc' = "return")]_vars

\* C14, amended: a command with a child and without run capability that is
\* left, after its level has been validated (help not asked, environment
\* pass, required check and Before passed), without residual token fails
\* with the no-command-specified usage error; with a run capability the
\* parse succeeds and the command itself is the one to run.
C14_NoResidualNoRunWithChildrenFails ==
    [][(pc = "subCmd" /\ args = <<>> /\ Len(cmds[cur].commands) > 0) =>
          /\ pc' = "return"
          /\ cur' = cur
          /\ err' = IF cmds[cur].run = "none"
                    THEN ResultErr("no_command_specified", NoName, <<>>, TRUE, cur)
                    ELSE NoErr]_vars

\* The root, which cannot run and has children, was given nothing.
C14_Witness ==
    /\ sc = "hooks"
    /\ Returned
    /\ argv = <<>>
    /\ beforeCalls = <<"root">>
    /\ err = ResultErr("no_command_specified", NoName, <<>>, TRUE, "root")

(***************************************************************************)
(* The terminal command, Run, hooks                                        *)
(***************************************************************************)
\* C15: at a validated level with no child to go to, the result is the
\* no-command-specified error exactly when the config has no run capability
\* and the command has a child; otherwise the parse succeeds, also for a leaf
\* without run method, for which only Run fails, with the no-run-method
\* error. Run never calls the run method of a result that carries an error,
\* and calls that of the resolved command only.
C15_TerminalOutcome ==
    /\ [][(pc = "subCmd" /\ subCmd = NoCmd) =>
             /\ pc' = "return"
             /\ err' = IF cmds[cur].run = "none" /\ Len(cmds[cur].commands) > 0
                       THEN ResultErr("no_command_specified", NoName, <<>>, TRUE, cur)
                       ELSE NoErr]_vars
    /\ [][pc = "return" =>
             /\ err # NoErr => (runCalls' = <<>> /\ runErr' = err)
             /\ (err = NoErr /\ cmds[cur].run = "none") =>
                    /\ runCalls' = <<>>
                    /\ runErr' = ResultErr("no_run_method", NoName, <<>>, FALSE, cur)
             /\ (err = NoErr /\ cmds[cur].run # "none") => runCalls' = <<cur>>]_vars
    /\ [](runCalls # <<>> => (pc = "ran" /\ err = NoErr /\ runCalls = <<cur>>))

\* A leaf without run method parsed well, and Run failed on it.
C15_Witness ==
    /\ sc = "hooks"
    /\ pc = "ran"
    /\ argv = <<Tok.other, Long(Tok.bool)>>
    /\ cur = "other"
    /\ err = NoErr
    /\ runErr = ResultErr("no_run_method", NoName, <<>>, FALSE, "other")
    /\ runCalls = <<>>

\* The commands entered before the running one.
Ancestors == {path[i] : i \in 1..(Len(path) - 1)}

\* C16: a flag token is resolved against the fields of the running level
\* only: no step changes a slot or set count of another command, so parsing
\* a child leaves parent and siblings as they were; a flag of an ancestor
\* given after the child's name is an undefined-flag error at the child
\* unless the child has a field of that name, which is then the one set.
C16_FieldsScopedToLevel ==
    [][/\ \A c \in DOMAIN cmds :
              c # cur => (slot'[c] = slot[c] /\ setCount'[c] = setCount[c])
       /\ AtFlagPosition =>
              \A a \in Ancestors : \A f \in FieldsOf(a) : \A t \in BareForms(f) :
                  Head(args) = t =>
                      IF \E g \in CurFields : NameIn(t) \in {g.Name, g.ShortName}
                      THEN \E g \in CurFields :
                               /\ NameIn(t) \in {g.Name, g.ShortName}
                               /\ \/ setCount'[cur][g.Name] = setCount[cur][g.Name] + 1
                                  \/ pc' = "return"
                      ELSE FailsWith("undefined_flag", NameIn(t), <<>>)]_vars

\* The root's own flag was set at the root, and --bool after the child's
\* name set the child's field of that name, not the root's.
C16_Witness ==
    /\ sc = "hooks"
    /\ Returned
    /\ argv = <<Short(Tok.f), Tok.other, Long(Tok.bool)>>
    /\ RootSlot(Tok.flag) = [b |-> TRUE]
    /\ RootSlot(Tok.bool) = [b |-> FALSE]
    /\ slot["other"][Tok.bool] = [b |-> TRUE]
    /\ slot["sub"] = InitSlots(cmds)["sub"]

\* s is the beginning of t.
IsPrefix(s, t) == Len(s) <= Len(t) /\ SubSeq(t, 1, Len(s)) = s

\* The commands of the sequence s that have a Before method.
RECURSIVE WithBefore(_)
WithBefore(s) ==
    IF s = <<>> THEN <<>>
    ELSE IF cmds[Head(s)].before # "none" THEN <<Head(s)>> \o WithBefore(Tail(s))
    ELSE WithBefore(Tail(s))

\* C17: the Before hook of a level is called at most once, after the
\* level's flag scan, residual disposition, environment pass and required
\* check have succeeded, and before the child is parsed and before Run: the
\* hooks called are those of the levels entered, in root-to-leaf order. When
\* Before returns an error, ParseArgs returns that error as it is, the child
\* is not parsed (its fields stay as built) and nothing is run.
C17_BeforeOrder ==
    /\ [][/\ pc' = "Before" => pc = "checkRequired" /\ MissingAt(cur) = {}
          /\ pc' = "checkRequired" => pc = "parseEnvVars"
          /\ pc' = "parseEnvVars" => pc = "residual"
          /\ pc' = "residual" => pc = "helpCommand"
          /\ beforeCalls' # beforeCalls =>
                 (pc = "Before" /\ err = NoErr /\ beforeCalls' = Append(beforeCalls, cur))
          /\ (pc = "Before" /\ cmds[cur].before # "none") =>
                 /\ beforeCalls' # beforeCalls
                 /\ IF hooks.before[cur] = "nil" THEN err' = NoErr /\ pc' = "subCmd"
                    ELSE /\ pc' = "return"
                         /\ err'.cmd = cur
                         /\ err'.kind = (IF hooks.before[cur] = "help" THEN "help" ELSE "boom")
                         /\ err'.usage = (hooks.before[cur] = "usage_boom")]_vars
    /\ [](/\ IsPrefix(WithBefore(SubSeq(path, 1, Len(path) - 1)), beforeCalls)
          /\ IsPrefix(beforeCalls, WithBefore(path))
          /\ (runCalls # <<>> => beforeCalls = WithBefore(path))
          /\ (err.kind = "boom" /\ pc = "return") =>
                 /\ runCalls = <<>>
                 /\ \A c \in DOMAIN cmds :
                        (\A i \in 1..Len(path) : path[i] # c) =>
                            (slot[c] = InitSlots(cmds)[c] /\ setCount[c] = InitCounts(cmds)[c]))

\* The child's Before failed after the root's had been called: the child's
\* child, named next, was never entered.
C17_Witness ==
    /\ sc = "hooks"
    /\ Returned
    /\ argv = <<Tok.sub, Tok.deep>>
    /\ hooks.before["sub"] = "boom"
    /\ beforeCalls = <<"root", "sub">>
    /\ path = <<"root", "sub">>
    /\ err = ResultErr("boom", NoName, <<>>, FALSE, "sub")

\* C18: Run writes help to the HelpWriter exactly when the error it returns
\* (from the parse, from Before or from the command's Run) is a usage error
\* or ErrHelp; a plain error of Before or Run is returned as it is with
\* nothing written, a successful run writes nothing, and nothing is written
\* before Run or without a HelpWriter.
C18_HelpWrittenIffUsageOrHelp ==
    /\ [](pc # "ran" => helpWritten = <<>>)
    /\ [](pc = "ran" =>
             /\ helpWritten = IF helpWriter /\ (runErr.usage \/ runErr.kind = "help")
                              THEN <<runErr.cmd>> ELSE <<>>
             /\ err # NoErr => runErr = err
             /\ runCalls # <<>> =>
                    /\ runErr.kind = (CASE hooks.run[cur] = "nil" -> "none"
                                        [] hooks.run[cur] = "help" -> "help"
                                        [] OTHER -> "boom")
                    /\ runErr.usage = (hooks.run[cur] = "usage_boom"))

\* The command's Run returned a usage error and its help was written.
C18_Witness ==
    /\ sc = "hooks"
    /\ pc = "ran"
    /\ helpWriter
    /\ hooks.run["sub"] = "usage_boom"
    /\ runCalls = <<"sub">>
    /\ runErr = ResultErr("boom", NoName, <<>>, TRUE, "sub")
    /\ helpWritten = <<"sub">>

(***************************************************************************)
(* Append and pointer fields                                               *)
(***************************************************************************)
AppendScenarios == {"append", "appendDefault"}

\* The fields of the root that carry the append tag.
AppendFields == {f \in FieldsOf("root") : IsAppendKind(f.kind)}

\* The elements seen through an append slot, in order: for pointer elements
\* what each pointer points at.
View(v) ==
    [i \in 1..Len(v.l) |->
        IF "mem" \in DOMAIN v
        THEN (IF v.l[i] = 0 THEN v.ph ELSE v.mem[v.l[i]])
        ELSE v.l[i]]

\* The elements the slot of f held when the config was given to Build.
HeldAtBuild(f) == View(BuiltSlots(sc, cmds)["root"][f.Name])

\* Whether tok is --name=value for the field f, and then its value.
IsInlineOf(f, tok) ==
    /\ Len(tok) > Len(f.Name) + 2
    /\ SubSeq(tok, 1, Len(f.Name) + 3) = WithValue(Long(f.Name), <<>>)
InlineValue(f, tok) == Drop(tok, Len(f.Name) + 3)

RECURSIVE Supplied(_, _)
\* The values the tokens toks supply to the append field f, coerced to its
\* element type, in supplied order.
Supplied(f, toks) ==
    IF toks = <<>> THEN <<>>
    ELSE IF IsInlineOf(f, Head(toks))
    THEN <<SetterSet(ElemKind(f.kind), InlineValue(f, Head(toks))).val>>
             \o Supplied(f, Tail(toks))
    ELSE Supplied(f, Tail(toks))

\* C19 as stated: after a parse in which every set succeeded, an append
\* field that was set holds exactly the supplied values, in supplied order.
C19_AppendYieldsExactlySupplied ==
    (sc \in AppendScenarios /\ Returned /\ err = NoErr) =>
        \A f \in AppendFields :
            setCount["root"][f.Name] > 0 =>
                View(slot["root"][f.Name]) = Supplied(f, argv)

\* C19: N successful sets of an append field with values v1..vN append
\* v1..vN, in supplied order, to the elements the target held at build time
\* (so the target is exactly [v1..vN] when it was empty at build time), for
\* value and for pointer elements alike; every set appends one element and
\* leaves what is seen through the earlier elements as it was.
C19_AppendExtendsBuiltSequence ==
    /\ []((sc \in AppendScenarios /\ Returned /\ err = NoErr) =>
              \A f \in AppendFields :
                  /\ View(slot["root"][f.Name]) = HeldAtBuild(f) \o Supplied(f, argv)
                  /\ setCount["root"][f.Name] = Len(Supplied(f, argv))
                  /\ sc = "append" =>
                         /\ View(slot["root"][f.Name]) = Supplied(f, argv)
                         /\ Len(View(slot["root"][f.Name])) = setCount["root"][f.Name])
    /\ [][(sc \in AppendScenarios) =>
            \A f \in AppendFields :
                IF /\ AtFlagPosition
                   /\ IsInlineOf(f, Head(args))
                   /\ SetterSet(ElemKind(f.kind), InlineValue(f, Head(args))).ok
                THEN View(slot'["root"][f.Name]) =
                         Append(View(slot["root"][f.Name]),
                                SetterSet(ElemKind(f.kind), InlineValue(f, Head(args))).val)
                ELSE View(slot'["root"][f.Name]) = View(slot["root"][f.Name])]_vars

\* Two sets of the pointer-element field and one of the value-element field:
\* the first pointer still shows 12 after the second set put 7.
C19_Witness ==
    /\ sc = "append"
    /\ Returned
    /\ err = NoErr
    /\ argv = <<WithValue(Long(Tok.nums), Tok.twelve), WithValue(Long(Tok.nums), Tok.seven),
                WithValue(Long(Tok.tags), Tok.x)>>
    /\ View(slot["root"][Tok.nums]) = <<[i |-> 12], [i |-> 7]>>
    /\ View(slot["root"][Tok.tags]) = <<[s |-> Tok.x]>>
    /\ setCount["root"][Tok.nums] = 2

\* The pointer fields of the root.
PointerFields == {f \in FieldsOf("root") : IsPointerKind(f.kind)}

\* The scan is about to set the field f from the token v: --name=v, or
\* --name followed by v.
AboutToSet(f, v) ==
    /\ AtFlagPosition
    /\ \/ Head(args) = WithValue(Long(f.Name), v)
       \/ Head(args) = Long(f.Name) /\ Len(args) >= 2 /\ args[2] = v

\* The tokens a pointer field can be given in the pointer scenario.
PointerValues == Pool("pointer") \cup {Tok.twelve, Tok.seven, Tok.x, Tok.v}

\* C20: a pointer field that is nil when the config is given to Build is
\* still nil after Build and stays nil until a set of it succeeds: a set
\* whose coercion fails leaves it nil, and so does the required check that
\* reports it missing. A successful set makes it point at the value a field
\* of the pointee type holds for the same token. A pointer field that is not
\* nil at Build holds its default as long as it is not set.
C20_NilPointerUntilSet ==
    /\ []((sc = "pointer" /\ setCount["root"][Tok.ptr] = 0) =>
              Held("*int", slot["root"][Tok.ptr]) = [nil |-> TRUE])
    /\ []((sc = "pointer" /\ Returned /\ err.kind = "required_not_set") =>
              (err.name = Tok.ptr /\ slot["root"][Tok.ptr].nil))
    /\ []((sc = "pointer" /\ setCount["root"][Tok.def] = 0) =>
              Held("*string", slot["root"][Tok.def]) = [s |-> Tok.quux])
    /\ [][(sc = "pointer") =>
            \A f \in PointerFields :
                IF \E v \in PointerValues :
                       AboutToSet(f, v) /\ SetterSet(ElemKind(f.kind), v).ok
                THEN \E v \in PointerValues :
                       /\ AboutToSet(f, v)
                       /\ Held(f.kind, slot'["root"][f.Name]) =
                              SetterSet(ElemKind(f.kind), v).val
                ELSE Held(f.kind, slot'["root"][f.Name]) =
                         Held(f.kind, slot["root"][f.Name])]_vars

\* The only set of the nil pointer field failed coercion: the parse ended
\* with the invalid-value error and the field is still nil.
C20_Witness ==
    /\ sc = "pointer"
    /\ Returned
    /\ argv = <<WithValue(Long(Tok.ptr), Tok.x)>>
    /\ err = ResultErr("invalid_value", Tok.ptr, Tok.x, TRUE, "root")
    /\ setCount["root"][Tok.ptr] = 1
    /\ slot["root"][Tok.ptr].nil
    /\ Held("*string", slot["root"][Tok.def]) = [s |-> Tok.quux]

(***************************************************************************)
(* Properties of the construction (BuildSpec)                              *)
(***************************************************************************)
\* Build has returned for the config cfg.
BuildReturned == bpc \in {"built", "done"} /\ btree # EmptyMap

\* Build returned a command for the config cfg.
BuildSucceeded == BuildReturned /\ btree.p.err = NoBuildErr

RECURSIVE SinkNames(_)
\* The sinks a record's entries declare, embedded records included, in
\* declaration order.
SinkNames(es) ==
    IF es = <<>> THEN <<>>
    ELSE (CASE Head(es).tag = "args" -> <<Head(es).f.Name>>
            [] Head(es).tag = "embed" -> SinkNames(Head(es).sub)
            [] OTHER -> <<>>) \o SinkNames(Tail(es))

RECURSIVE DropSinks(_)
\* The entries without the sinks.
DropSinks(es) ==
    IF es = <<>> THEN <<>>
    ELSE (CASE Head(es).tag = "args" -> <<>>
            [] Head(es).tag = "embed" -> <<EmbedEntry(DropSinks(Head(es).sub))>>
            [] OTHER -> <<Head(es)>>) \o DropSinks(Tail(es))

\* C21: a config record declaring more than one positional sink, in one
\* struct or across embedded structs, fails at build time with a
\* duplicate-args-field error (the record is taken to be valid apart from
\* its sinks).
C21_DuplicateSinkFails ==
    (/\ BuildReturned
     /\ Len(SinkNames(reflectFields(cfg))) > 1
     /\ Build(<<"p">>, DropSinks(reflectFields(cfg)), "none", "run").err = NoBuildErr)
    => btree.p.err.kind = "duplicate_args_field"

\* C22: no command has both a positional sink and a child; AddCommand on a
\* parent with a sink panics and leaves the parent's child list and child
\* map and the child's parent reference as they were, and on a parent
\* without a sink it registers the child.
C22_SinkExcludesChildren ==
    /\ [](\A c \in DOMAIN btree :
            btree[c].argsField # NoName =>
                btree[c].commands = <<>> /\ btree[c].commandMap = EmptyMap)
    /\ [][bpc = "built" =>
            IF btree.p.argsField # NoName
            THEN /\ panicked'
                 /\ btree'.p.commands = btree.p.commands
                 /\ btree'.p.commandMap = btree.p.commandMap
                 /\ btree'.c.parent = btree.c.parent
            ELSE /\ ~panicked'
                 /\ btree'.p.commands = <<"c">>
                 /\ btree'.c.parent = "p"]_vars

\* AddCommand has panicked on a parent with a sink.
C22_Witness ==
    /\ bpc = "done"
    /\ panicked
    /\ btree.p.argsField # NoName
    /\ btree.p.commands = <<>>
    /\ btree.c.parent = NoCmd

\* The fields getFields binds for the config cfg, and its error.
Bound == getFields(reflectFields(cfg))

RECURSIVE ClaimedKeys(_)
\* The keys the fields fs claim, in the order they claim them: each field
\* its name, then its alias if it has one.
ClaimedKeys(fs) ==
    IF fs = <<>> THEN <<>>
    ELSE <<Head(fs).Name>> \o (IF Head(fs).ShortName = NoName THEN <<>>
                                ELSE <<Head(fs).ShortName>>) \o ClaimedKeys(Tail(fs))

\* The positions of ks whose key an earlier position holds.
Repeats(ks) == {i \in 1..Len(ks) : \E j \in 1..(i - 1) : ks[j] = ks[i]}

\* The fields of a command that claim the key k.
Claimants(cmd, k) ==
    {i \in 1..Len(cmd.fields) : cmd.fields[i].Name = k \/ cmd.fields[i].ShortName = k}

\* C23: names and aliases share one namespace: Build fails with the
\* duplicate-name error for the first key that is claimed a second time
\* (across embedded records, and between an alias and a one-character name);
\* after a successful Build every key of the lookup table maps to the one
\* field claiming it and every field is found under its name.
C23_OneNamespace ==
    (BuildReturned /\ Bound.err = NoBuildErr) =>
        LET ks == ClaimedKeys(Bound.fields)
            p == btree.p
        IN IF Repeats(ks) # {}
           THEN p.err = BuildErr("duplicate_name",
                                 ks[CHOOSE i \in Repeats(ks) : \A j \in Repeats(ks) : i <= j],
                                 {})
           ELSE /\ p.err = NoBuildErr
                /\ \A k \in DOMAIN p.fieldMap :
                      /\ Cardinality(Claimants(p, k)) = 1
                      /\ \A i \in Claimants(p, k) : p.fieldMap[k] = p.fields[i]
                /\ \A i \in 1..Len(p.fields) :
                      /\ p.fields[i].Name \in DOMAIN p.fieldMap
                      /\ p.fieldMap[p.fields[i].Name] = p.fields[i]

\* The alias of the second field is the one-character name of the first,
\* and Build has failed on it.
C23_Witness ==
    /\ bpc = "done"
    /\ cfg = <<Fld.B, Fld.BarB>>
    /\ btree.p.err = BuildErr("duplicate_name", <<"b">>, {})

\* A field of an embedded record has the name of a field of the record, and
\* Build has failed on it.
C23_WitnessEmbedded ==
    /\ bpc = "done"
    /\ cfg = <<Fld.Foo, FldStruct.Emb>>
    /\ btree.p.err = BuildErr("duplicate_name", <<"f", "o", "o">>, {})

\* The keys the bound fields of the config claim.
ConfigKeys == {ClaimedKeys(Bound.fields)[i] : i \in 1..Len(ClaimedKeys(Bound.fields))}

\* C24: for a config whose own fields bind without error, Build succeeds
\* and puts a boolean help field with the alias h in front of them, except
\* that a config field named help leaves the fields as they are, and a key h
\* held by a name or an alias of the config leaves the help field without
\* alias and the key h with its holder.
C24_HelpInjection ==
    (BuildReturned /\ Bound.err = NoBuildErr /\ Repeats(ClaimedKeys(Bound.fields)) = {}) =>
        LET p == btree.p
        IN /\ p.err = NoBuildErr
           /\ IF N_help \in ConfigKeys
              THEN /\ p.fields = Bound.fields
                   /\ \A i \in 1..Len(p.fields) : ~p.fields[i].injected
              ELSE /\ Tail(p.fields) = Bound.fields
                   /\ p.fields[1].Name = N_help
                   /\ p.fields[1].kind = "bool"
                   /\ p.fields[1].injected
                   /\ p.fieldMap[N_help] = p.fields[1]
                   /\ IF N_h \in ConfigKeys
                      THEN p.fields[1].ShortName = NoName /\ ~p.fieldMap[N_h].injected
                      ELSE p.fields[1].ShortName = N_h /\ p.fieldMap[N_h] = p.fields[1]

\* A config field holds the alias h, and help was injected without alias.
C24_Witness ==
    /\ BuildSucceeded
    /\ cfg = <<Fld.HostH>>
    /\ btree.p.fields[1].Name = N_help
    /\ btree.p.fields[1].ShortName = NoName
    /\ btree.p.fieldMap[N_h].Name = <<"h", "o", "s", "t">>

\* The tags of a struct field.
TagsOf(sf) == parseFieldTags(parseStructTagInner(sf.tag))

\* Whether getFields passes over a struct field: it cannot be set, or it is
\* tagged "-".
Passed(sf) == ~sf.exported \/ TagsOf(sf).exclude

RECURSIVE FlatNames(_)
\* The flag names of the fields of a struct in declaration order, an
\* embedded struct standing for its own fields; the sink is not a flag.
FlatNames(sfs) ==
    IF sfs = <<>> THEN <<>>
    ELSE LET sf == Head(sfs)
         IN (IF Passed(sf) THEN <<>>
             ELSE IF sf.anonymous \/ TagsOf(sf).embed THEN FlatNames(sf.sub)
             ELSE IF TagsOf(sf).args THEN <<>>
             ELSE IF TagsOf(sf).name # <<>> THEN <<TagsOf(sf).name>>
             ELSE <<ToKebabCase(sf.goName)>>) \o FlatNames(Tail(sfs))

RECURSIVE PassedNames(_)
\* The flag names the passed-over fields of a struct would have had.
PassedNames(sfs) ==
    IF sfs = <<>> THEN {}
    ELSE (IF Passed(Head(sfs)) THEN {ToKebabCase(Head(sfs).goName)}
          ELSE PassedNames(Head(sfs).sub)) \cup PassedNames(Tail(sfs))

RECURSIVE Kept(_)
\* The struct without its passed-over fields.
Kept(sfs) ==
    IF sfs = <<>> THEN <<>>
    ELSE (IF Passed(Head(sfs)) THEN <<>>
          ELSE <<[Head(sfs) EXCEPT !.sub = Kept(@)]>>) \o Kept(Tail(sfs))

\* C25: the fields a successful Build binds (after the help field it puts
\* in front) are the settable, non-excluded fields of the config in
\* declaration order, each embedded struct replaced in place by its own
\* fields, depth first (the sink is bound apart from them). A field tagged
\* "-" and an unexported field are in no list and under no key, and Build
\* gives what it gives for the struct without them, error included.
C25_FlattenedInOrder ==
    BuildReturned =>
        LET p == btree.p
            own == SelectSeq(p.fields, LAMBDA f : ~f.injected)
        IN /\ p.err = NoBuildErr =>
                 /\ [i \in 1..Len(own) |-> own[i].Name] = FlatNames(cfg)
                 /\ \A n \in PassedNames(cfg) \ {FlatNames(cfg)[i] : i \in 1..Len(FlatNames(cfg))} :
                       n \notin DOMAIN p.fieldMap
           /\ LET q == Build(<<"p">>, reflectFields(Kept(cfg)), "none", "run")
              IN /\ p.err = q.err
                 /\ p.fields = q.fields
                 /\ p.fieldMap = q.fieldMap
                 /\ p.argsField = q.argsField

\* A struct with a "-" field, an unexported field with a tag that would not
\* parse, and an embedded struct holding a "-" field and an anonymous
\* struct: Build has bound num, foo and b and neither skip nor priv.
C25_Witness ==
    /\ BuildSucceeded
    /\ cfg = <<Fld.priv, FldStruct.Emb, Fld.Skip>>
    /\ [i \in 1..Len(btree.p.fields) |-> btree.p.fields[i].Name]
           = <<N_help, Tok.num, Tok.foo, <<"b">> >>
    /\ <<"s", "k", "i", "p">> \notin DOMAIN btree.p.fieldMap
    /\ <<"p", "r", "i", "v">> \notin DOMAIN btree.p.fieldMap

\* The keys of the tags of the struct fields that parseFieldTags does not
\* know, for the fields whose other tags are valid.
UnknownKeysOf(sf) ==
    CASE sf = Fld.Baz -> {<<"f", "o", "o">>}
      [] sf = Fld.Qux -> {<<"f", "o", "o">>, <<"b", "a", "r">>}

\* C26: the first field of the config that getFields cannot bind has keys
\* in its tag that are not recognized, among valid tags: Build fails with
\* one unknown-tags error naming all unrecognized keys of that field and
\* no recognized key.
C26_UnknownTagsNamed ==
    BuildReturned =>
        \A i \in 1..Len(cfg) :
            (/\ cfg[i] \in {Fld.Baz, Fld.Qux}
             /\ \A j \in 1..(i - 1) : cfg[j] \notin {Fld.Baz, Fld.Qux, Fld.Bad})
            => /\ btree.p.err = BuildErr("unknown_tags", NoName, UnknownKeysOf(cfg[i]))
               /\ btree.p.err.keys \cap RecognizedKeys = {}

\* A field with the tags foo, short=q and bar=1 after a field that binds:
\* Build has failed naming foo and bar.
C26_Witness ==
    /\ bpc = "done"
    /\ Len(cfg) = 2
    /\ cfg[1] = Fld.Num
    /\ cfg[2] = Fld.Qux
    /\ btree.p.err.kind = "unknown_tags"
    /\ btree.p.err.keys = {<<"f", "o", "o">>, <<"b", "a", "r">>}

RECURSIVE ItemsMap(_)
\* The map a list of items stands for: each key without its spaces, with
\* its value, the empty string for a bare key; a later item replaces an
\* earlier one of the same key.
ItemsMap(its) ==
    IF its = <<>> THEN EmptyMap
    ELSE Put(ItemsMap(SubSeq(its, 1, Len(its) - 1)),
             SelectSeq(its[Len(its)].key, LAMBDA c : c # " "),
             its[Len(its)].val)

\* parseStructTagInner has returned.
TagParsed == bpc = "done" /\ btree = EmptyMap

\* C27: parseStructTagInner maps a comma-separated list of items to the map
\* of its items: a bare key to the empty string, an unquoted value up to
\* the next comma, a quoted value with its commas and spaces and without
\* its quotes, keys without their spaces; the empty input to the empty map.
C27_TagMap ==
    TagParsed =>
        /\ \A its \in SeqsUpTo(TagItems, MaxItems) :
              tagIn = FormatItems(its) => tagOut = ItemsMap(its)
        /\ tagIn = <<>> => tagOut = EmptyMap
        /\ tagIn = SpacedTag =>
              tagOut = Put(Put(EmptyMap, <<"f", "o", "o">>, <<"b", "a", "r">>),
                           <<"b", "a", "z">>, <<"q", "u", "u", "x">>)

\* The tag "b z=4 2,baz='q,x',foo" has been parsed.
C27_Witness ==
    /\ TagParsed
    /\ tagIn = <<"b", " ", "z", "=", "4", " ", "2", ",",
                 "b", "a", "z", "=", "'", "q", ",", "x", "'", ",", "f", "o", "o">>
    /\ DOMAIN tagOut = {<<"b", "z">>, <<"b", "a", "z">>, <<"f", "o", "o">>}
    /\ tagOut[<<"b", "z">>] = <<"4", " ", "2">>
    /\ tagOut[<<"b", "a", "z">>] = <<"q", ",", "x">>
    /\ tagOut[<<"f", "o", "o">>] = <<>>

(***************************************************************************)
(* Properties of the parse (Spec), continued                               *)
(***************************************************************************)
\* The children of the command c that the token t selects by name or by
\* short name.
ChildrenCalled(c, t) ==
    {cmds[c].commands[i] : i \in {j \in 1..Len(cmds[c].commands) :
        \/ cmds[cmds[c].commands[j]].name = t
        \/ cmds[cmds[c].commands[j]].shortName # NoName
           /\ cmds[cmds[c].commands[j]].shortName = t}}

\* C28: the first residual token selects a child by its name or by its
\* short name: the child it calls becomes the sub-command, and the parse of
\* the child starts with the tokens after it.
C28_ChildByNameOrAlias ==
    /\ [][(/\ pc = "residual"
           /\ args # <<>>
           /\ cmds[cur].argsField = NoName
           /\ ChildrenCalled(cur, args[1]) # {})
          => /\ subCmd' \in ChildrenCalled(cur, args[1])
             /\ err' = NoErr]_vars
    /\ [][(pc = "subCmd" /\ subCmd # NoCmd /\ pc' = "parse")
          => cur' = subCmd /\ args' = Tail(args)]_vars

\* C29: a field's setCount counts the Setter invocations on it that
\* succeeded: a flag given with an inline value raises the count of its
\* field by one when the value is coerced and leaves it when the coercion
\* fails, and so does a value from the environment.
C29_SetCountCountsSuccesses ==
    /\ [][\A f \in CurFields :
            (pc = "parse" /\ args # <<>> /\ IsInlineOf(f, Head(args))) =>
                setCount'[cur][f.Name] =
                    setCount[cur][f.Name] + (IF err' = NoErr THEN 1 ELSE 0)]_vars
    /\ [][\A f \in CurFields :
            (pc = "parseEnvVars" /\ err'.kind = "env_value" /\ err'.name = f.Name) =>
                setCount'[cur][f.Name] = setCount[cur][f.Name]]_vars

\* The single-dash tokens of two letters or more whose first letter is the
\* short name of the boolean field f.
StartsCluster(f, tok) ==
    /\ f.ShortName # NoName
    /\ isBoolFlag(f)
    /\ Len(tok) >= 3
    /\ tok[1] = "-"
    /\ <<tok[2]>> = f.ShortName
    /\ tok[3] # "="

\* C30: the parse ends at the first token that fails: the error is the
\* result of ParseArgs, as a usage error of the command being parsed; the
\* tokens after the failing one (and after the value it took) are left as
\* they are; what the failing token and the tokens before it have assigned
\* stays (a boolean letter in front of the failing letter of a cluster is
\* true and counted), and nothing changes slots, set counts or arguments
\* afterwards.
C30_StopsAtFirstFailure ==
    /\ [][(pc = "parse" /\ pc' = "return") =>
            /\ err' # NoErr
            /\ err'.usage
            /\ err'.cmd = cur
            /\ IsSuffix(args', args)
            /\ Len(args) - Len(args') <= 2
            /\ \A c \in DOMAIN cmds : \A n \in DOMAIN slot[c] :
                  /\ setCount'[c][n] >= setCount[c][n]
                  /\ setCount'[c][n] = setCount[c][n] => slot'[c][n] = slot[c][n]
            /\ \A f \in CurFields :
                  StartsCluster(f, Head(args)) =>
                      /\ slot'[cur][f.Name] = [b |-> TRUE]
                      /\ setCount'[cur][f.Name] > setCount[cur][f.Name]]_vars
    /\ [][pc = "return" =>
            /\ slot' = slot
            /\ setCount' = setCount
            /\ args' = args
            /\ err' = err
            /\ runErr' = err \/ err = NoErr]_vars
    /\ []((sc = "mixed" /\ pc = "return"
           /\ argv = <<Long(Tok.bool), Short(<<"n", "b">>), Long(Tok.bool)>>) =>
              /\ err.kind = "needs_argument"
              /\ err.name = Tok.n
              /\ RootSlot(Tok.bool) = [b |-> TRUE]
              /\ RootCount(Tok.bool) = 1
              /\ RootCount(Tok.name) = 0
              /\ IsSuffix(<<Long(Tok.bool)>>, args))

\* The cluster -abc without a value for c has failed: a and b are true.
C30_Witness ==
    /\ sc = "cluster"
    /\ pc = "return"
    /\ argv = <<Short(Tok.a), Short(<<"a", "b", "c">>)>>
    /\ err.kind = "needs_argument"
    /\ err.name = Tok.c
    /\ RootSlot(<<"a", "l">>) = [b |-> TRUE]
    /\ RootCount(<<"a", "l">>) = 2
    /\ RootSlot(<<"b", "e">>) = [b |-> TRUE]
    /\ RootCount(<<"b", "e">>) = 1

(***************************************************************************)
(* Parsing a built tree again                                              *)
(***************************************************************************)
\* The argv of the current call holds no flag token at all.
NoFlagTokens == \A i \in 1..Len(argv) : PlainToken(argv[i])

\* C31: no step of ParseArgs, and no new call of it, lowers a set count or
\* writes a slot without counting a set. So in a later call on the same
\* tree whose argv holds no flag, a field with an environment key that an
\* earlier call set is not looked up, keeps its value, and passes the
\* required check.
C31_CountsSurviveReparse ==
    /\ [][\A c \in DOMAIN cmds : \A n \in DOMAIN setCount[c] :
            /\ setCount'[c][n] >= setCount[c][n]
            /\ (slot'[c][n] # slot[c][n]) => (setCount'[c][n] > setCount[c][n])]_vars
    /\ [][(parses' # parses) => (slot' = slot /\ setCount' = setCount)]_vars
    /\ [][(sc = "reparse" /\ NoFlagTokens /\ RootCount(Tok.foo) > 0) =>
            /\ (pc = "parseEnvVars") =>
                  /\ parses > 1
                  /\ pc' = "checkRequired"
                  /\ UNCHANGED <<lookups, slot, setCount, err>>
            /\ (pc = "checkRequired") => (pc' = "Before" /\ err' = NoErr)]_vars

\* The second call, with no argument, after a first call that set --foo: the
\* environment holds FOO, yet foo keeps the first call's value and the call
\* succeeds.
C31_Witness ==
    /\ sc = "reparse"
    /\ parses = 2
    /\ argv = <<>>
    /\ pc = "ran"
    /\ env["FOO"] = EnvFound(Tok.quux)
    /\ RootCount(Tok.foo) = 1
    /\ RootSlot(Tok.foo) = [s |-> Tok.x]
    /\ lookups = <<>>
    /\ err = NoErr

C32_WitnessBelow ==
    /\ sc = "order"
    /\ Returned
    /\ argv = <<WithValue(Long(Tok.name), Tok.x), Tok.sub, Long(N_help)>>
    /\ err.kind = "help"
    /\ err.cmd = "sub"

\* The place of each check in the order ParseArgs makes them in.
StageOf ==
    [parse |-> 1, helpRequested |-> 2, helpCommand |-> 3, residual |-> 4,
     parseEnvVars |-> 5, checkRequired |-> 6, Before |-> 7, subCmd |-> 8]

\* The kinds of error each check returns.
KindsAt ==
    [parse |-> {"bad_flag_syntax", "undefined_flag", "needs_argument", "invalid_boolean_flag",
                "invalid_boolean_value", "invalid_value"},
     helpRequested |-> {"help"},
     helpCommand |-> {"help", "unknown_command"},
     residual |-> {"unknown_command", "no_arguments_taken"},
     parseEnvVars |-> {"env_lookup", "env_value"},
     checkRequired |-> {"required_not_set"},
     Before |-> {"boom"},
     subCmd |-> {"no_command_specified"}]

\* C33: the checks of one level are made in one order, each at most once (the
\* scan step by step), and the first that fails returns its error: scan,
\* help flag, help command and residual, environment, required fields,
\* Before, no command specified. So a first residual token that is no child
\* is reported with no environment lookup and no Before call made, whatever
\* is required; and "no command specified" is returned only when no required
\* field is missing and the Before method was called and returned nil.
C33_ChecksInOrder ==
    /\ [][(pc \in DOMAIN StageOf) =>
            \/ pc' = "return" /\ err' = NoErr /\ pc = "subCmd"
            \/ pc' = "return" /\ err'.kind \in KindsAt[pc]
            \/ pc' = "parse" /\ pc = "parse" /\ cur' = cur /\ err' = NoErr
            \/ /\ pc' \in DOMAIN StageOf
               /\ StageOf[pc'] = StageOf[pc] + 1
               /\ cur' = cur
               /\ err' = NoErr
            \/ /\ pc = "subCmd" /\ pc' = "parse"
               /\ subCmd # NoCmd /\ cur' = subCmd /\ path' = Append(path, subCmd)
               /\ err' = NoErr]_vars
    /\ []((Returned /\ path = <<"root">>) =>
            /\ (err.kind \in KindsAt.parse \cup KindsAt.helpCommand \cup KindsAt.residual) =>
                  (lookups = <<>> /\ beforeCalls = <<>>)
            /\ (sc = "order" /\ argv # <<>> /\ argv[1] = Tok.x) =>
                  (err.kind = "unknown_command" /\ err.name = Tok.x)
            /\ (err.kind \in {"env_lookup", "env_value", "required_not_set"}) =>
                  beforeCalls = <<>>
            /\ (err.kind = "no_command_specified") =>
                  /\ MissingAt("root") = {}
                  /\ cmds["root"].before # "none" =>
                        (beforeCalls = <<"root">> /\ hooks.before["root"] = "nil"))

\* The first residual token is no child while the required field is missing
\* and its environment variable is absent: unknown command, nothing looked up.
C33_Witness ==
    /\ sc = "order"
    /\ Returned
    /\ argv = <<Tok.x>>
    /\ env["FOO"] = EnvAbsent
    /\ hooks.before["root"] = "boom"
    /\ MissingAt("root") # {}
    /\ err.kind = "unknown_command"
    /\ lookups = <<>>
    /\ beforeCalls = <<>>

\* No command specified, after the required check and Before have passed.
C33_WitnessNoCommand ==
    /\ sc = "order"
    /\ Returned
    /\ argv = <<WithValue(Long(Tok.name), Tok.x)>>
    /\ err.kind = "no_command_specified"
    /\ beforeCalls = <<"root">>

\* The command a, a level above the current one, has passed its environment
\* pass, its required check and its Before method.
LevelPassed(a) ==
    /\ \A i \in 1..Len(cmds[a].fields) :
          cmds[a].fields[i].EnvVarName # "" =>
              \/ setCount[a][cmds[a].fields[i].Name] > 0
              \/ LookupsOf(lookups, a, cmds[a].fields[i].Name) > 0
    /\ MissingAt(a) = {}
    /\ cmds[a].before # "none" =>
          /\ \E j \in 1..Len(beforeCalls) : beforeCalls[j] = a
          /\ hooks.before[a] = "nil"

\* C34: a level below the root is entered, and so its help flag looked at,
\* only after every level above it has passed its environment pass, its
\* required check and its Before method: with the parent's required field
\* missing, "sub --help" returns the parent's required-field error and sub is
\* never entered.
C34_AncestorsPassFirst ==
    /\ \A i \in 1..(Len(path) - 1) : LevelPassed(path[i])
    /\ (/\ sc = "order"
        /\ Returned
        /\ Len(argv) >= 2 /\ argv[1] = Tok.sub /\ argv[2] = Long(N_help)
        /\ env["FOO"] = EnvAbsent) =>
            /\ err = ResultErr("required_not_set", Tok.name, <<>>, TRUE, "root")
            /\ path = <<"root">>
            /\ slot["sub"][N_help] = [b |-> FALSE]

\* "sub --help" with the parent's required field missing.
C34_Witness ==
    /\ sc = "order"
    /\ Returned
    /\ argv = <<Tok.sub, Long(N_help)>>
    /\ env["FOO"] = EnvAbsent
    /\ err.kind = "required_not_set"
    /\ err.cmd = "root"
    /\ subCmd = "sub"

\* Help of sub reached through a parent that the environment satisfied.
C34_WitnessReached ==
    /\ sc = "order"
    /\ Returned
    /\ argv = <<Tok.sub, Long(N_help)>>
    /\ env["FOO"] = EnvFound(Tok.quux)
    /\ err = ResultErr("help", NoName, <<>>, FALSE, "sub")
    /\ path = <<"root", "sub">>

RECURSIVE Follow(_, _)
\* The command reached from c by following names as child names, and the
\* first name that is no child (NoName if every name is one).
Follow(c, names) ==
    IF names = <<>> THEN [cmd |-> c, unknown |-> NoName]
    ELSE IF ChildrenNamed(c, Head(names)) = {} THEN [cmd |-> c, unknown |-> Head(names)]
    ELSE Follow(CHOOSE d \in ChildrenNamed(c, Head(names)) : TRUE, Tail(names))

\* The residual of the current level starts the help command.
HelpCommandCase ==
    /\ pc = "helpCommand"
    /\ cmds[cur].parent = NoCmd
    /\ cmds[cur].argsField = NoName
    /\ args # <<>>
    /\ args[1] = N_help

\* C35: at the root, without an args field, a residual starting with "help"
\* is the help command, taken before any child is looked up: the tokens after
\* it are followed as child names from the root, the result is ErrHelp for
\* the command reached, or the unknown-command usage error for the first
\* token that is no child, and nothing is looked up, checked or called. A
\* child of the root named help is never entered; below the root "help" is
\* looked up as any other child name.
C35_HelpCommandAtRoot ==
    /\ [][HelpCommandCase =>
            /\ pc' = "return"
            /\ err' = IF Follow(cur, Tail(args)).unknown = NoName
                      THEN ResultErr("help", NoName, <<>>, FALSE, Follow(cur, Tail(args)).cmd)
                      ELSE ResultErr("unknown_command", Follow(cur, Tail(args)).unknown,
                                     <<>>, TRUE, cur)
            /\ UNCHANGED <<lookups, beforeCalls, slot, setCount, sink, subCmd, cur, path, args>>]_vars
    /\ [][(pc = "helpCommand" /\ ~HelpCommandCase) => (pc' = "residual" /\ err' = err)]_vars
    /\ [][(/\ pc = "residual" /\ args # <<>> /\ args[1] = N_help
           /\ cmds[cur].argsField = NoName /\ ChildrenNamed(cur, N_help) # {}
           /\ cmds[cur].parent # NoCmd) =>
              (subCmd' \in ChildrenNamed(cur, N_help) /\ pc' = "parseEnvVars")]_vars
    /\ [](\A i \in 1..Len(path) : cmds[path[i]].parent = "root" => cmds[path[i]].name # N_help)
    /\ [](subCmd # NoCmd => ~(cmds[subCmd].parent = "root" /\ cmds[subCmd].name = N_help))

\* "help sub help": ErrHelp for the command named help under sub, with the
\* root's required field missing and nothing looked up.
C35_Witness ==
    /\ sc = "order"
    /\ Returned
    /\ argv = <<N_help, Tok.sub, N_help>>
    /\ err = ResultErr("help", NoName, <<>>, FALSE, "deep")
    /\ path = <<"root">>
    /\ MissingAt("root") # {}
    /\ lookups = <<>>

\* Below the root "help" names a child, which is entered.
C35_WitnessBelow ==
    /\ sc = "order"
    /\ argv = <<WithValue(Long(Tok.name), Tok.x), Tok.sub, N_help>>
    /\ path = <<"root", "sub", "deep">>
    /\ pc = "return"
    /\ err = NoErr

(***************************************************************************)
(* The args field and an empty residual                                    *)
(***************************************************************************)
\* C36: the args field is written by the residual step alone, and only when
\* the residual is not empty, then with the whole residual in place of what
\* it held. With no positional token, or only a closing "--", it keeps the
\* value the config held at Build.
C36_EmptyResidualKeepsSink ==
    /\ [][(pc # "residual" \/ args = <<>>) => sink' = sink]_vars
    /\ [][(pc = "residual" /\ args # <<>> /\ cmds[cur].argsField # NoName) =>
              sink' = [sink EXCEPT ![cur] = args]]_vars
    /\ []((/\ sc = "reparse" /\ parses = 1 /\ Returned
           /\ \A i \in 1..Len(argv) : argv[i] = DashDash => i = Len(argv)
           /\ \A i \in 1..Len(argv) : argv[i] # Tok.v) =>
              (sink["root"] = <<Tok.quux>> /\ args = <<>>))

\* A call whose only token after the flag is "--": the args field still
\* holds what the config gave it.
C36_Witness ==
    /\ sc = "reparse"
    /\ parses = 1
    /\ Returned
    /\ argv = <<WithValue(Long(Tok.foo), Tok.x), DashDash>>
    /\ err = NoErr
    /\ sink["root"] = <<Tok.quux>>

\* A residual of one token replaces the value the config gave.
C36_WitnessOverwritten ==
    /\ sc = "reparse"
    /\ parses = 1
    /\ Returned
    /\ argv = <<DashDash, Tok.v>>
    /\ sink["root"] = <<Tok.v>>

(***************************************************************************)
(* Boolean flags are the fields of kind bool                               *)
(***************************************************************************)
\* The token in flag position is the long name of a field of the current
\* command, without an inline value.
BareLongOf(f) == AtFlagPosition /\ Head(args) = Long(f.Name)

\* C37: a flag in its bare form is taken as boolean, set to true with nothing
\* else consumed, exactly when the kind of its field is bool. For a pointer
\* to bool and for an appended slice of bool the bare form takes the next
\* token as its value, whatever it is, and without a next token fails for
\* want of an argument.
C37_BoolFlagIsOwnKind ==
    [][\A f \in CurFields :
          (BareLongOf(f) /\ ~f.injected) =>
              IF f.kind = "bool"
              THEN /\ args' = Tail(args)
                   /\ slot'[cur][f.Name] = [b |-> TRUE]
                   /\ err' = NoErr
              ELSE IF Len(args) = 1
              THEN /\ err' = ResultErr("needs_argument", f.Name, <<>>, TRUE, cur)
                   /\ pc' = "return"
              ELSE /\ args' = Tail(Tail(args))
                   /\ setCount'[cur][f.Name] = setCount[cur][f.Name] + 1
                   /\ fieldSetter(f.kind, slot[cur][f.Name], args[2]).ok =>
                         (/\ err' = NoErr
                          /\ slot'[cur][f.Name] =
                                 fieldSetter(f.kind, slot[cur][f.Name], args[2]).val
                          /\ ElemKind(f.kind) = "bool" =>
                                 slot'[cur][f.Name].ph = SetterSet("bool", args[2]).val)]_vars

\* "--flag true" on the pointer to bool: the pointer now points at true, and
\* "true" was consumed as the value.
C37_Witness ==
    /\ sc = "ptrbool"
    /\ Returned
    /\ argv = <<Long(Tok.flag), Tok.true>>
    /\ err = NoErr
    /\ args = <<>>
    /\ RootSlot(Tok.flag) = [nil |-> FALSE, ph |-> [b |-> TRUE], wrapped |-> TRUE]

\* "--flag" alone on the pointer to bool.
C37_WitnessMissing ==
    /\ sc = "ptrbool"
    /\ Returned
    /\ argv = <<Long(Tok.flag)>>
    /\ err = ResultErr("needs_argument", Tok.flag, <<>>, TRUE, "root")

(***************************************************************************)
(* Inline values                                                           *)
(***************************************************************************)
\* The token without its one or two leading dashes.
Undashed(tok) == IF Len(tok) >= 2 /\ tok[2] = "-" THEN Drop(tok, 2) ELSE Drop(tok, 1)

\* The positions of the "=" of a name that are not its first character.
EqualsIn(name) == {i \in 2..Len(name) : name[i] = "="}

\* The token in flag position names the field f, by its name after two
\* dashes or by its short name after one, and gives it an inline value.
InlineFor(f) ==
    /\ AtFlagPosition
    /\ ~PlainToken(Head(args))
    /\ EqualsIn(Undashed(Head(args))) # {}
    /\ LET name == Undashed(Head(args))
           eq == CHOOSE i \in EqualsIn(name) : \A j \in EqualsIn(name) : i <= j
       IN SubSeq(name, 1, eq - 1) = IF Head(args)[2] = "-" THEN f.Name ELSE f.ShortName

\* The inline value of the token in flag position: what follows the first
\* "=" that is not the first character of its name.
InlineOf(tok) ==
    LET name == Undashed(tok)
        eq == CHOOSE i \in EqualsIn(name) : \A j \in EqualsIn(name) : i <= j
    IN Drop(name, eq)

\* The step applies the inline value of the token in flag position to f:
\* one set with exactly that value, the token consumed and no other.
InlineApplied(f) ==
    /\ args' = Tail(args)
    /\ setCount'[cur][f.Name] = setCount[cur][f.Name] + 1
    /\ slot'[cur][f.Name] = fieldSetter(f.kind, slot[cur][f.Name], InlineOf(Head(args))).val
    /\ fieldSetter(f.kind, slot[cur][f.Name], InlineOf(Head(args))).ok => err' = NoErr

\* C38: a flag token with an inline value is split at the first "=" that is
\* not the first character of the flag name; what follows it is the value as
\* it stands ("a=b" for "--name=a=b", the empty string for "--name="), it
\* counts as one set, and the next token is not consumed.
C38_InlineValueSplit ==
    [][\A f \in CurFields : InlineFor(f) => InlineApplied(f)]_vars

\* The same for the tokens with two dashes.
C38_LongInlineValueSplit ==
    [][\A f \in CurFields : (InlineFor(f) /\ Head(args)[2] = "-") => InlineApplied(f)]_vars

\* "--name=" before another token: name is set, to the empty string, and the
\* token after it is left in the residual.
C38_Witness ==
    /\ sc = "inline"
    /\ argv = <<WithValue(Long(Tok.name), <<>>), Tok.x>>
    /\ pc = "helpRequested"
    /\ args = <<Tok.x>>
    /\ RootSlot(Tok.name) = [s |-> <<>>]
    /\ RootCount(Tok.name) = 1

\* "--name=a=b".
C38_WitnessVerbatim ==
    /\ sc = "inline"
    /\ argv = <<WithValue(Long(Tok.name), WithValue(Tok.a, Tok.b))>>
    /\ Returned
    /\ err = NoErr
    /\ RootSlot(Tok.name) = [s |-> <<"a", "=", "b">>]

(***************************************************************************)
(* The frame of a set on an append field                                   *)
(***************************************************************************)
\* The sequence s begins with the sequence t.
StartsWith(s, t) == Len(s) >= Len(t) /\ SubSeq(s, 1, Len(t)) = t

\* No token of the command line names the append field f.
NotOnCommandLine(f) == \A i \in 1..Len(argv) : ~IsInlineOf(f, argv[i])

\* C39: every step leaves the elements an append field held, those of the
\* config at Build included, where and what they were; a set that succeeds
\* puts exactly one element behind them, a set that fails none. The
\* environment pass appends a variable's value, as one element, only to a
\* field that the command line has not named.
C39_SetAppendsOneAtEnd ==
    /\ [][\A f \in AppendFields :
            /\ StartsWith(View(slot'["root"][f.Name]), View(slot["root"][f.Name]))
            /\ Len(View(slot'["root"][f.Name])) <= Len(View(slot["root"][f.Name])) + 1
            /\ (Len(View(slot'["root"][f.Name])) = Len(View(slot["root"][f.Name])) + 1) =>
                  setCount'["root"][f.Name] = setCount["root"][f.Name] + 1
            /\ (err'.kind \in {"invalid_value", "env_value"} /\ err'.name = f.Name) =>
                  View(slot'["root"][f.Name]) = View(slot["root"][f.Name])
            /\ (AtFlagPosition /\ IsInlineOf(f, Head(args))
                /\ SetterSet(ElemKind(f.kind), InlineValue(f, Head(args))).ok) =>
                  View(slot'["root"][f.Name]) =
                      Append(View(slot["root"][f.Name]),
                             SetterSet(ElemKind(f.kind), InlineValue(f, Head(args))).val)
            /\ (pc = "parseEnvVars" /\ f.EnvVarName # "") =>
                  IF /\ NotOnCommandLine(f)
                     /\ env[f.EnvVarName].found
                     /\ SetterSet(ElemKind(f.kind), env[f.EnvVarName].val).ok
                     /\ LookupsOf(lookups', "root", f.Name) = 1
                  THEN View(slot'["root"][f.Name]) =
                           Append(View(slot["root"][f.Name]),
                                  SetterSet(ElemKind(f.kind), env[f.EnvVarName].val).val)
                  ELSE View(slot'["root"][f.Name]) = View(slot["root"][f.Name])]_vars
    /\ [](\A f \in AppendFields : StartsWith(View(slot["root"][f.Name]), HeldAtBuild(f)))

\* One flag for tags and none for nums, both variables set: tags has the
\* config's element and the flag's, nums the config's and the variable's.
C39_Witness ==
    /\ sc = "appendEnv"
    /\ Returned
    /\ err = NoErr
    /\ argv = <<WithValue(Long(Tok.tags), Tok.x)>>
    /\ env["FOO"] = EnvFound(Tok.v)
    /\ env["NUM"] = EnvFound(Tok.twelve)
    /\ View(RootSlot(Tok.tags)) = <<[s |-> Tok.quux], [s |-> Tok.x]>>
    /\ View(RootSlot(Tok.nums)) = <<[i |-> 12], [i |-> 12]>>

\* A value of the variable that cannot be coerced: nums is as it was built.
C39_WitnessFailed ==
    /\ sc = "appendEnv"
    /\ Returned
    /\ err.kind = "env_value"
    /\ env["NUM"] = EnvFound(Tok.x)
    /\ View(RootSlot(Tok.nums)) = <<[i |-> 12]>>

(***************************************************************************)
(* Termination of ParseArgs                                                *)
(***************************************************************************)
\* C40: every call of ParseArgs returns. A step of the scan that goes on
\* leaves fewer arguments than it found, the recursion into a child hands it
\* fewer arguments than the level was given, and so the levels entered are
\* at most one more than the tokens of the command line, also when a command
\* is registered under itself.
C40_ParseArgsTerminates ==
    /\ <>Returned
    /\ [][(pc = "parse" /\ pc' = "parse") => Len(args') < Len(args)]_vars
    /\ [][(pc = "subCmd" /\ pc' = "parse") =>
              (Len(arguments') < Len(args) /\ Len(args) <= Len(arguments))]_vars
    /\ [](Len(path) <= Len(argv) + 1)
    /\ [](Len(args) <= Len(arguments) /\ Len(arguments) + Len(path) <= Len(argv) + 1)

\* The command registered under itself, named three times: four levels.
C40_Witness ==
    /\ sc = "self"
    /\ argv = <<<<"r">>, <<"r">>, <<"r">>>>
    /\ Returned
    /\ err = NoErr
    /\ path = <<"root", "root", "root", "root">>

====
